---- MODULE Spec2Model ----
(***************************************************************************)
(* cxsecurity-crawler: the page fetcher (pkg/crawler/client.go), the       *)
(* extractors (list, detail, CVE detail, author) and the facade            *)
(* (pkg/crawler/crawler.go, search.go) as one state machine.               *)
(*                                                                         *)
(* Strings that the code inspects (paths, URLs, ids) are sequences of      *)
(* tokens; a token stands for a run of characters that the code never      *)
(* splits ("WLB-", "/", "http", ...).  An HTML document is the record of   *)
(* what the goquery selectors of each extractor find in it.                *)
(***************************************************************************)
EXTENDS Integers, Sequences, FiniteSets, TLC

VARIABLES
    retryOpt,     \* the maxRetries argument of the WithRetry option, None without it
    maxRetries,   \* Client.maxRetries
    baseURL,      \* Client.baseURL
    pc,           \* "idle", "fetch" (inside GetPage's loop), "done"
    op,           \* the call in progress / last completed
    path,         \* the path handed to Client.GetPage
    attempt,      \* GetPage's loop variable
    log,          \* one entry per doRequest of the current call: TRUE when it succeeded
    last,         \* the last response the server produced: [kind, status]
    sleeps,       \* number of time.Sleep(retryDelay) made by the current call
    lastErr,      \* GetPage's lastErr
    firstErr,     \* history: the error of the current call's first failed attempt
    served,       \* body of the last response the server produced
    extractor,    \* extractor run by the current call ("none" when none ran)
    ret,          \* what the call returned: [err, val]
    calls,        \* the locals of the calls that run concurrently on one Crawler
    cli,          \* the search command (cmd/search.go): its flags, loop variable and history
    api           \* the REST server (cmd/api.go): its settings and the last request served

vars == <<retryOpt, maxRetries, baseURL, pc, op, path, attempt, log, last, sleeps, firstErr,
          lastErr, served, extractor, ret, calls, cli, api>>

(***************************************************************************)
(* Bounds                                                                  *)
(***************************************************************************)
MaxRetryArg == 2      \* largest maxRetries argument given to WithRetry
MaxPage == 2          \* largest page number a caller asks for

(***************************************************************************)
(* strings package, on token sequences                                     *)
(***************************************************************************)
HasPrefix(s, p) == Len(s) >= Len(p) /\ SubSeq(s, 1, Len(p)) = p

\* strings.Index: first position (1-based) where sub occurs in s, 0 if none
Index(s, sub) ==
    LET hits == {i \in 1..(Len(s) - Len(sub) + 1) : SubSeq(s, i, i + Len(sub) - 1) = sub}
    IN IF hits = {} THEN 0 ELSE CHOOSE i \in hits : \A j \in hits : i <= j

Contains(s, sub) == Index(s, sub) > 0

\* strings.Replace(s, old, new, 1)
Replace1(s, old, new) ==
    LET i == Index(s, old)
    IN IF i = 0 THEN s
       ELSE SubSeq(s, 1, i - 1) \o new \o SubSeq(s, i + Len(old), Len(s))

\* s[i:] with a 1-based i
From(s, i) == SubSeq(s, i, Len(s))

Origin == <<"http", "s://", "cxsecurity.com">>   \* "https://cxsecurity.com"
WLB == <<"WLB-">>
IssueWLB == <<"/", "issue", "/", "WLB-">>     \* "/issue/WLB-"
IssueWLBWLB == <<"/", "issue", "/", "WLB-", "WLB-">>

(***************************************************************************)
(* time.Parse: a date text is [shape, day]; a layout accepts the shapes    *)
(* written in it.  The zero time.Time is day 0.                            *)
(***************************************************************************)
NoText == [shape |-> "", day |-> 0]          \* the empty string
ZeroDate == 0

Accepts(format, shape) ==
    CASE format = "2006-01-02"      -> shape = "Y-M-D"
      [] format = "02.01.2006"      -> shape = "DD.MM.Y"
      [] format = "2.1.2006"        -> shape \in {"DD.MM.Y", "D.M.Y"}
      [] format = "2006.01.02"      -> shape = "Y.M.D"
      [] format = "01/02/2006"      -> shape = "M/D/Y"
      [] format = "Jan 2, 2006"     -> shape = "Mon D, Y"
      [] format = "January 2, 2006" -> shape = "Month D, Y"
      [] OTHER                      -> FALSE

\* for _, format := range formats { if t, err := time.Parse(...); err == nil { date = t; break } }
RECURSIVE ParseFirst(_, _)
ParseFirst(formats, text) ==
    IF formats = <<>> THEN ZeroDate
    ELSE IF Accepts(Head(formats), text.shape) THEN text.day
    ELSE ParseFirst(Tail(formats), text)

(***************************************************************************)
(* The regular expressions CVE-\d{4}-\d+ and CWE-\d+ : the matched part of *)
(* a text, "" when there is no match.                                      *)
(***************************************************************************)
cvePattern(text) ==
    CASE text = "CVE-2024-21413"       -> "CVE-2024-21413"
      [] text = "fix for CVE-2024-21413" -> "CVE-2024-21413"
      [] OTHER                         -> ""

cwePattern(text) ==
    CASE text = "CWE-79"       -> "CWE-79"
      [] text = "CWE-79 XSS"   -> "CWE-79"
      [] OTHER                 -> ""

(***************************************************************************)
(* URL completion as each extractor writes it                              *)
(***************************************************************************)
\* list_parser.go: if url != "" && !HasPrefix(url, "http") { "/"-case or not }
FixURL(url) ==
    IF url # <<>> /\ ~HasPrefix(url, <<"http">>)
    THEN IF HasPrefix(url, <<"/">>) THEN Origin \o url ELSE Origin \o <<"/">> \o url
    ELSE url

\* author parser: if url != "" && !HasPrefix(url, "http") { origin + url }
AuthorFixURL(url) ==
    IF url # <<>> /\ ~HasPrefix(url, <<"http">>) THEN Origin \o url ELSE url

\* the id of a record: the url from the marker "WLB-" up to the next "/"
IdFromURL(url) ==
    LET idx == Index(url, WLB)
    IN IF url = <<>> \/ idx = 0 THEN <<>>
       ELSE LET urlPart == From(url, idx)
                slashIdx == Index(urlPart, <<"/">>)
            IN IF slashIdx = 0 THEN urlPart ELSE SubSeq(urlPart, 1, slashIdx - 1)

(***************************************************************************)
(* Pagination mining (the tail of ParseListPage and of AuthorParser.Parse) *)
(* A script block is [mention, tot, cur, per]: mention says that the text  *)
(* contains "$scope.totalItems"; tot, cur, per are the numbers assigned to *)
(* $scope.totalItems, $scope.currentPage and $scope.perPage, None when the *)
(* block has no such assignment.                                           *)
(***************************************************************************)
None == -1

(* Go's int has the width of the build: 32 bits here (GOARCH=386, arm), so  *)
(* that the sums stay within what can be computed.  On a 64-bit build the   *)
(* same happens at 9223372036854775807.                                     *)
MaxInt == 2147483647
MinInt == -MaxInt - 1

\* a + b in int arithmetic, for a >= 0 and b >= 0: it wraps around past MaxInt
AddWrap(a, b) ==
    IF b > 0 /\ a > MaxInt - b THEN MinInt + ((a - MaxInt) + (b - 1)) ELSE a + b

\* a / b in int arithmetic, for b > 0: the quotient is truncated toward zero
Quo(a, b) ==
    IF a >= 0 THEN a \div b
    ELSE IF a + b > 0 THEN 0
    ELSE -((-(a + b)) \div b) - 1

\* a miner that takes the counters of a block only when all three are assigned
RECURSIVE MineScriptsAllThree(_, _)
MineScriptsAllThree(scripts, acc) ==
    IF scripts = <<>> THEN acc
    ELSE LET s == Head(scripts)
             nxt == IF s.mention /\ s.tot # None /\ s.cur # None /\ s.per # None
                    THEN [totalItems |-> s.tot, currentPage |-> s.cur, perPage |-> s.per]
                    ELSE acc
         IN MineScriptsAllThree(Tail(scripts), nxt)

RECURSIVE MineScripts(_, _)
MineScripts(scripts, acc) ==
    IF scripts = <<>> THEN acc
    ELSE LET s == Head(scripts)
             nxt == IF s.mention
                    THEN [totalItems  |-> IF s.tot # None THEN s.tot ELSE acc.totalItems,
                          currentPage |-> IF s.cur # None THEN s.cur ELSE acc.currentPage,
                          perPage     |-> IF s.per # None THEN s.per ELSE acc.perPage]
                    ELSE acc
         IN MineScripts(Tail(scripts), nxt)

Pagination(scripts) ==
    LET m == MineScripts(scripts, [totalItems |-> 0, currentPage |-> 1, perPage |-> 10])
        totalPages == IF m.perPage > 0 /\ m.totalItems > 0
                      THEN Quo(AddWrap(m.totalItems, m.perPage - 1), m.perPage)
                      ELSE 1
        currentPage == IF m.currentPage < 1 THEN 1 ELSE m.currentPage
    IN [currentPage |-> currentPage, totalPages |-> totalPages]


(***************************************************************************)
(* Documents.  raw tells what the text is made of: "empty" (the empty      *)
(* string), "space" (white space only) or "markup".                        *)
(***************************************************************************)
\* strings.TrimSpace(htmlContent) == ""
\* a blank check that also rejects text in which no document shape is found
IsBlankOrShapeless(d) ==
    \/ d.raw \in {"empty", "space"}
    \/ (~d.list.striped /\ ~d.list.flat /\ d.detail.title1 = "" /\ d.cve.cveId = ""
          /\ d.author.h1 = "")

IsBlank(d) == d.raw \in {"empty", "space"}

(***************************************************************************)
(* Records (pkg/model)                                                     *)
(***************************************************************************)
Nil == [nil |-> TRUE]            \* a nil pointer result
NoErr == <<>>                    \* a nil error; an error is its chain of messages

\* model.Vulnerability{} : every field at its zero value
ZeroVuln ==
    [Date |-> ZeroDate, Title |-> "", URL |-> <<>>, ID |-> <<>>, RiskLevel |-> "",
     Tags |-> <<>>, CVE |-> "", CWE |-> "", IsRemote |-> FALSE, IsLocal |-> FALSE,
     Author |-> "", AuthorURL |-> <<>>]

(***************************************************************************)
(* Parser.ParseListPage                                                    *)
(*                                                                         *)
(* The list view of a document: striped / flat say whether                 *)
(* table.table-striped and the width=100% table exist, pagIt whether       *)
(* div[ng-controller='PagIt'] exists, elems are the thead and row elements *)
(* of the table in document order.  An element is                          *)
(*   [kind, date, ncells, layout, risk, title, href, labels, author,       *)
(*    authorHref]                                                          *)
(* kind "thead": date is the text of "tr > th font", the row has no td.    *)
(* kind "tr": layout "std" rows carry title/labels/author under div.row,   *)
(* layout "search" rows carry the title under h6 a, the date in the third  *)
(* cell and the author in the fourth.                                      *)
(***************************************************************************)
\* the search-page branch, one row (lines 108-197)
SearchRow(row) ==
    LET isRow == row.kind = "tr" /\ row.layout = "search"
        title == IF isRow THEN row.title ELSE ""
        url == FixURL(IF isRow THEN row.href ELSE <<>>)
        date == ParseFirst(<<"02.01.2006", "2006-01-02", "01/02/2006">>,
                           IF isRow THEN row.date ELSE NoText)
        hasAuthor == isRow /\ row.ncells >= 4
    IN [ZeroVuln EXCEPT !.Date = date, !.Title = title, !.URL = url,
                        !.RiskLevel = IF row.kind = "tr" THEN row.risk ELSE "",
                        !.CVE = cvePattern(title), !.CWE = cwePattern(title),
                        !.Author = IF hasAuthor THEN row.author ELSE "",
                        !.AuthorURL = FixURL(IF hasAuthor THEN row.authorHref ELSE <<>>)]

RECURSIVE SearchRows(_, _, _)
SearchRows(rows, headerRow, items) ==
    IF rows = <<>> THEN items
    ELSE LET row == Head(rows)
             cells == IF row.kind = "tr" THEN row.ncells ELSE 0
             v == SearchRow(row)
         IN IF headerRow THEN SearchRows(Tail(rows), FALSE, items)
            ELSE IF cells < 3 THEN SearchRows(Tail(rows), FALSE, items)
            ELSE IF v.Title # "" THEN SearchRows(Tail(rows), FALSE, Append(items, v))
            ELSE SearchRows(Tail(rows), FALSE, items)

\* the label loop of a standard row (lines 252-285)
RECURSIVE StdLabels(_, _)
StdLabels(labels, v) ==
    IF labels = <<>> THEN v
    ELSE LET l == Head(labels)
             tag == l.text
             nxt == IF l.authorLink \/ tag = "" THEN v
                    ELSE IF cvePattern(tag) # "" THEN [v EXCEPT !.CVE = cvePattern(tag)]
                    ELSE IF cwePattern(tag) # "" THEN [v EXCEPT !.CWE = cwePattern(tag)]
                    ELSE IF tag = "Remote" THEN [v EXCEPT !.IsRemote = TRUE]
                    ELSE IF tag = "Local" THEN [v EXCEPT !.IsLocal = TRUE]
                    ELSE [v EXCEPT !.Tags = Append(v.Tags, tag)]
         IN StdLabels(Tail(labels), nxt)

\* the standard branch, one row (lines 218-303)
StdRow(row, currentDate) ==
    LET isRow == row.layout = "std"
        base == [ZeroVuln EXCEPT !.Date = currentDate,
                                 !.Title = IF isRow THEN row.title ELSE "",
                                 !.URL = FixURL(IF isRow THEN row.href ELSE <<>>),
                                 !.RiskLevel = row.risk]
        tagged == StdLabels(IF isRow THEN row.labels ELSE <<>>, base)
    IN [tagged EXCEPT !.Author = IF isRow THEN row.author ELSE "",
                      !.AuthorURL = FixURL(IF isRow THEN row.authorHref ELSE <<>>)]

\* a header that replaces the running date whatever its text is
NextDateAlwaysReplaced(currentDate, parsed) == parsed

\* the running date after a thead whose text parsed to `parsed` (lines 206-212):
\* only a successful time.Parse assigns currentDate
NextDate(currentDate, parsed) == IF parsed # ZeroDate THEN parsed ELSE currentDate

RECURSIVE StdElems(_, _, _)
StdElems(elems, currentDate, items) ==
    IF elems = <<>> THEN items
    ELSE LET e == Head(elems)
             parsed == ParseFirst(<<"2006-01-02", "02.01.2006", "Jan 2, 2006">>, e.date)
             v == StdRow(e, currentDate)
         IN IF e.kind = "thead"
            THEN StdElems(Tail(elems), NextDate(currentDate, parsed), items)
            ELSE IF e.ncells < 2 THEN StdElems(Tail(elems), currentDate, items)
            ELSE IF v.Title # "" THEN StdElems(Tail(elems), currentDate, Append(items, v))
            ELSE StdElems(Tail(elems), currentDate, items)

ParseListPage(d) ==
    IF IsBlank(d) THEN [err |-> <<"HTML content is empty">>, val |-> Nil]
    ELSE IF ~d.list.striped /\ ~d.list.flat
    THEN [err |-> NoErr, val |-> [Items |-> <<>>, CurrentPage |-> 0, TotalPages |-> 0]]
    ELSE LET items == IF d.list.pagIt
                      THEN SearchRows(d.list.elems, TRUE, <<>>)
                      ELSE StdElems(d.list.elems, ZeroDate, <<>>)
             pg == Pagination(d.scripts)
         IN [err |-> NoErr,
             val |-> [Items |-> items, CurrentPage |-> pg.currentPage,
                      TotalPages |-> pg.totalPages]]


(***************************************************************************)
(* Parser.ParseVulnerabilityDetailPage                                     *)
(*                                                                         *)
(* The detail view of a document:                                          *)
(*   title1     text of "h4 > B" (first)                                   *)
(*   title2     text of ".panel-body h4 b" (first)                         *)
(*   risk       label text inside the well containing "Risk:"              *)
(*   cveText    link text inside the well containing "CVE:"                *)
(*   cweText    link text inside the well containing "CWE:"                *)
(*   localB     texts of the b elements of the wells containing "Local:"   *)
(*   remoteB    the same for "Remote:"                                     *)
(*   dateCands  texts of the b elements of the date column, in order       *)
(*   credit     whether the "Credit:" well holds an author link            *)
(*   author, authorHref   that link's text and href                        *)
(*   wells      every .well-sm: [known, label], known when its text holds  *)
(*              one of the six field names, label the text of its labels   *)
(***************************************************************************)
\* doc.Find(...).Each(func ...{ if time.Parse("2006.01.02") ok { dateText = ...; return } })
RECURSIVE ScanDates(_, _)
ScanDates(cands, dateText) ==
    IF cands = <<>> THEN dateText
    ELSE ScanDates(Tail(cands),
                   IF Accepts("2006.01.02", Head(cands).shape) THEN Head(cands) ELSE dateText)

RECURSIVE OtherTags(_, _)
OtherTags(wells, tags) ==
    IF wells = <<>> THEN tags
    ELSE LET w == Head(wells)
         IN IF w.known THEN OtherTags(Tail(wells), tags)
            ELSE IF w.label # "" /\ w.label # "N/A" /\ w.label # "Type:"
                 THEN OtherTags(Tail(wells), Append(tags, w.label))
                 ELSE OtherTags(Tail(wells), tags)

\* a de-duplication that keeps the last occurrence of each tag
RECURSIVE DedupKeepLast(_, _)
DedupKeepLast(tags, result) ==
    IF tags = <<>> THEN result
    ELSE IF \E i \in 2..Len(tags) : tags[i] = Head(tags)
         THEN DedupKeepLast(Tail(tags), result)
         ELSE DedupKeepLast(Tail(tags), Append(result, Head(tags)))

\* the uniqueTags map loop (lines 142-153)
RECURSIVE Dedup(_, _)
Dedup(tags, result) ==
    IF tags = <<>> THEN result
    ELSE IF \E i \in 1..Len(result) : result[i] = Head(tags)
         THEN Dedup(Tail(tags), result)
         ELSE Dedup(Tail(tags), Append(result, Head(tags)))

Yes(bs) == \E i \in 1..Len(bs) : bs[i] = "Yes"

ParseVulnerabilityDetailPage(d) ==
    IF IsBlank(d) THEN [err |-> <<"HTML content is empty">>, val |-> Nil]
    ELSE LET v == d.detail
             dateText == ScanDates(v.dateCands, NoText)
             date == IF dateText # NoText
                     THEN ParseFirst(<<"2006.01.02", "2006-01-02", "02.01.2006",
                                       "Jan 2, 2006", "January 2, 2006">>, dateText)
                     ELSE ZeroDate
             tags == OtherTags(v.wells, <<>>)
         IN [err |-> NoErr,
             val |-> [ZeroVuln EXCEPT
                        !.Title = IF v.title1 # "" THEN v.title1 ELSE v.title2,
                        !.RiskLevel = v.risk,
                        !.CVE = IF v.cveText = "" THEN ""
                                ELSE IF cvePattern(v.cveText) # "" THEN cvePattern(v.cveText)
                                ELSE v.cveText,
                        !.CWE = IF v.cweText = "" THEN ""
                                ELSE IF cwePattern(v.cweText) # "" THEN cwePattern(v.cweText)
                                ELSE v.cweText,
                        !.IsLocal = Yes(v.localB),
                        !.IsRemote = Yes(v.remoteB),
                        !.Date = date,
                        !.Author = IF v.credit THEN v.author ELSE "",
                        !.AuthorURL = IF v.credit THEN v.authorHref ELSE <<>>,
                        !.Tags = IF Len(tags) > 0 THEN Dedup(tags, <<>>) ELSE tags]]

(***************************************************************************)
(* Parser.ParseCveDetailPage                                               *)
(*                                                                         *)
(* The CVE view of a document:                                             *)
(*   cveId       text of "h1 strong"                                       *)
(*   published, modified   the dates after "Published:" / "Modified:",     *)
(*               NoText when the pattern \d{4}-\d{2}-\d{2} does not match  *)
(*   description, type     the description cell and the CWE link text      *)
(*   scores      the three score labels, as tenths; None when the label    *)
(*               does not match ([\d.]+)/10; <<>> when the row is absent   *)
(*   attrRows    number of rows of the attribute table                     *)
(*   headers1, values1, headers2, values2   texts of its rows 1 to 4       *)
(*   affected    rows of the affected-software table                       *)
(*   refs        links of the window.open('...') attributes                *)
(*   related     rows of the related-vulnerabilities table after its first *)
(*               row: [ncells, risk, title, href, author, date]            *)
(***************************************************************************)
Score(scores, i) == IF Len(scores) >= 3 /\ scores[i] # None THEN scores[i] ELSE 0

\* attrValues[name] after the two header/value passes (a later pass overwrites)
Lookup(headers, values, name, dflt) ==
    LET js == {j \in 1..Len(values) : j <= Len(headers) /\ headers[j] = name}
    IN IF js = {} THEN dflt ELSE values[CHOOSE j \in js : \A k \in js : k <= j]

Attr(c, name) ==
    LET first == Lookup(c.headers1, c.values1, name, "")
    IN IF c.attrRows >= 4 THEN Lookup(c.headers2, c.values2, name, first) ELSE first

RECURSIVE AffectedRows(_, _)
AffectedRows(rows, out) ==
    IF rows = <<>> THEN out
    ELSE LET r == Head(rows)
         IN IF r.links >= 2 /\ r.vendorName # "" /\ r.productName # ""
            THEN AffectedRows(Tail(rows),
                   Append(out, [VendorName |-> r.vendorName, VendorURL |-> r.vendorURL,
                                ProductName |-> r.productName, ProductURL |-> r.productURL]))
            ELSE AffectedRows(Tail(rows), out)

RECURSIVE References(_, _)
References(links, out) ==
    IF links = <<>> THEN out
    ELSE IF Head(links) # <<>> /\ HasPrefix(Head(links), <<"http">>)
         THEN References(Tail(links), Append(out, Head(links)))
         ELSE References(Tail(links), out)

RECURSIVE RelatedRows(_, _)
RelatedRows(rows, out) ==
    IF rows = <<>> THEN out
    ELSE LET r == Head(rows)
             date == ParseFirst(<<"02.01.2006", "2.1.2006", "2006-01-02">>, r.date)
         IN IF r.ncells >= 4 /\ r.title # ""
            THEN RelatedRows(Tail(rows),
                   Append(out, [ZeroVuln EXCEPT !.Date = date, !.Title = r.title,
                                                !.URL = r.href, !.RiskLevel = r.risk,
                                                !.Author = r.author]))
            ELSE RelatedRows(Tail(rows), out)

ParseCveDetailPage(d) ==
    IF IsBlank(d) THEN [err |-> <<"HTML content is empty">>, val |-> Nil]
    ELSE LET c == d.cve
         IN [err |-> NoErr,
             val |-> [CveID |-> c.cveId,
                      Published |-> ParseFirst(<<"2006-01-02">>, c.published),
                      Modified |-> ParseFirst(<<"2006-01-02">>, c.modified),
                      Description |-> c.description,
                      Type |-> c.type,
                      CvssBaseScore |-> Score(c.scores, 1),
                      CvssImpactScore |-> Score(c.scores, 2),
                      CvssExploitScore |-> Score(c.scores, 3),
                      ExploitRange |-> Attr(c, "Exploit range"),
                      AttackComplexity |-> Attr(c, "Attack complexity"),
                      Authentication |-> Attr(c, "Authentication"),
                      ConfidentialityImpact |-> Attr(c, "Confidentiality impact"),
                      IntegrityImpact |-> Attr(c, "Integrity impact"),
                      AvailabilityImpact |-> Attr(c, "Availability impact"),
                      AffectedSoftware |-> AffectedRows(c.affected, <<>>),
                      References |-> References(c.refs, <<>>),
                      RelatedVulnerabilities |-> RelatedRows(c.related, <<>>)]]


(***************************************************************************)
(* AuthorParser.Parse                                                      *)
(*                                                                         *)
(* The author view of a document:                                          *)
(*   h1          text of the first h1                                      *)
(*   flag        the code in the flag image path "flags/<code>.png", upper *)
(*               cased; "" when there is no such image                     *)
(*   reported    first integer in the "Reported research:" heading, None   *)
(*               when there is none                                        *)
(*   contacts    the small.text-muted entries: [label, value]              *)
(*   rows        rows of "table.table-striped tr", the first included:     *)
(*               [ncells, date, title, href, risk, fonts, remote]          *)
(***************************************************************************)
countryCodeMap(code) ==
    CASE code = "XX" -> "unknown"
      [] code = "US" -> "United States"
      [] code = "CN" -> "China"
      [] OTHER       -> "absent"

\* strings.Trim(tagText, "()")
TrimParens(t) ==
    CASE t = "(XSS)" -> "XSS"
      [] t = "(SQLi)" -> "SQLi"
      [] OTHER -> t

RECURSIVE Contacts(_, _)
Contacts(cs, profile) ==
    IF cs = <<>> THEN profile
    ELSE LET c == Head(cs)
             nxt == CASE c.label = "Twitter"     -> [profile EXCEPT !.Twitter = c.value]
                      [] c.label = "Website"     -> [profile EXCEPT !.Website = c.value]
                      [] c.label = "Zone-H"      -> [profile EXCEPT !.ZoneH = c.value]
                      [] c.label = "Description" -> [profile EXCEPT !.Description = c.value]
                      [] OTHER                   -> profile
         IN Contacts(Tail(cs), nxt)

RECURSIVE AuthorTags(_, _)
AuthorTags(fonts, tags) ==
    IF fonts = <<>> THEN tags
    ELSE IF Head(fonts) # "" THEN AuthorTags(Tail(fonts), Append(tags, TrimParens(Head(fonts))))
    ELSE AuthorTags(Tail(fonts), tags)

AuthorRow(r) ==
    LET url == AuthorFixURL(r.href)
    IN [ZeroVuln EXCEPT
          !.Date = IF r.date # NoText
                   THEN ParseFirst(<<"2006-01-02", "02.01.2006", "2006.01.02">>, r.date)
                   ELSE ZeroDate,
          !.Title = r.title,
          !.URL = url,
          !.ID = IdFromURL(url),
          !.RiskLevel = r.risk,
          !.Tags = AuthorTags(r.fonts, <<>>),
          !.IsRemote = r.remote = "Remote",
          !.IsLocal = r.remote = "Local"]

RECURSIVE AuthorRows(_, _, _)
AuthorRows(rows, i, out) ==
    IF rows = <<>> THEN out
    ELSE LET r == Head(rows)
         IN IF i = 0 \/ r.ncells < 3 \/ r.title = ""
            THEN AuthorRows(Tail(rows), i + 1, out)
            ELSE AuthorRows(Tail(rows), i + 1, Append(out, AuthorRow(r)))

\* the pagination tail of AuthorParser.Parse, the same text as ParseListPage's
AuthorPagination(scripts) ==
    LET m == MineScripts(scripts, [totalItems |-> 0, currentPage |-> 1, perPage |-> 10])
        totalPages == IF m.perPage > 0 /\ m.totalItems > 0
                      THEN Quo(AddWrap(m.totalItems, m.perPage - 1), m.perPage)
                      ELSE 1
        currentPage == IF m.currentPage < 1 THEN 1 ELSE m.currentPage
    IN [currentPage |-> currentPage, totalPages |-> totalPages]

AuthorParse(d) ==
    LET a == d.author
        country == countryCodeMap(a.flag)
        pg == AuthorPagination(d.scripts)
        base == [ID |-> <<>>, Name |-> a.h1,
                 Country |-> IF country # "absent" THEN country ELSE "unknown",
                 CountryCode |-> a.flag,
                 ReportedCount |-> IF a.reported # None THEN a.reported ELSE 0,
                 Twitter |-> "", Website |-> "", ZoneH |-> "", Description |-> "",
                 Vulnerabilities |-> AuthorRows(a.rows, 0, <<>>),
                 CurrentPage |-> pg.currentPage, TotalPages |-> pg.totalPages]
    IN [err |-> NoErr, val |-> Contacts(a.contacts, base)]


(***************************************************************************)
(* The documents the model feeds to the extractors                         *)
(***************************************************************************)
MaxRows == 2          \* rows (and header groups) of a table
MaxScripts == 1       \* inline script blocks of a page

SeqsUpTo(S, n) == UNION {[1..k -> S] : k \in 0..n}

EmptyList == [striped |-> FALSE, flat |-> FALSE, pagIt |-> FALSE, elems |-> <<>>]
EmptyDetail ==
    [title1 |-> "", title2 |-> "", risk |-> "", cveText |-> "", cweText |-> "",
     localB |-> <<>>, remoteB |-> <<>>, dateCands |-> <<>>, credit |-> FALSE,
     author |-> "", authorHref |-> <<>>, wells |-> <<>>]
EmptyCve ==
    [cveId |-> "", published |-> NoText, modified |-> NoText, description |-> "",
     type |-> "", scores |-> <<>>, attrRows |-> 0, headers1 |-> <<>>, values1 |-> <<>>,
     headers2 |-> <<>>, values2 |-> <<>>, affected |-> <<>>, refs |-> <<>>,
     related |-> <<>>]
EmptyAuthor ==
    [h1 |-> "", flag |-> "", reported |-> None, contacts |-> <<>>, rows |-> <<>>]

\* "<invalid>html</content>": markup in which no selector finds anything
Junk == [raw |-> "markup", list |-> EmptyList, scripts |-> <<>>, detail |-> EmptyDetail,
         cve |-> EmptyCve, author |-> EmptyAuthor]
EmptyString == [Junk EXCEPT !.raw = "empty"]
BlankDocs == {EmptyString, [Junk EXCEPT !.raw = "space"]}

RootRel == <<"/", "issue", "/", "WLB-", "2024">>      \* "/issue/WLB-2024"
PlainRel == <<"issue", "/", "WLB-", "7", "/", "x">>   \* "issue/WLB-7/x"
HttpRel == <<"http", "-notes", "/", "a">>             \* "http-notes/a", a relative path
Absolute == Origin \o RootRel
NoMarker == <<"/", "vuln", "/", "123">>
Hrefs == {<<>>, RootRel, PlainRel, HttpRel, Absolute, NoMarker}
AuthorRel == <<"/", "author", "/", "alice">>
AuthorHrefs == {<<>>, AuthorRel, Origin \o AuthorRel}

Date(shape, day) == [shape |-> shape, day |-> day]
Junkdate == Date("junk", 0)

Thead(date) ==
    [kind |-> "thead", date |-> date, ncells |-> 0, layout |-> "", risk |-> "",
     title |-> "", href |-> <<>>, labels |-> <<>>, author |-> "", authorHref |-> <<>>]
Label(text) == [text |-> text, authorLink |-> FALSE]
StdTr(title, href, labels, authorHref) ==
    [kind |-> "tr", date |-> NoText, ncells |-> 2, layout |-> "std", risk |-> "High",
     title |-> title, href |-> href, labels |-> labels,
     author |-> IF authorHref = <<>> THEN "" ELSE "alice", authorHref |-> authorHref]
SearchTr(ncells, title, href, date, authorHref) ==
    [kind |-> "tr", date |-> date, ncells |-> ncells, layout |-> "search", risk |-> "Low",
     title |-> title, href |-> href, labels |-> <<>>,
     author |-> IF authorHref = <<>> THEN "" ELSE "alice", authorHref |-> authorHref]

Elems ==
    {Thead(Date("Y-M-D", 1)), Thead(Date("DD.MM.Y", 2)), Thead(Junkdate)}
    \cup {StdTr("t1", RootRel,
                <<Label("CVE"), Label("Remote"), [text |-> "alice", authorLink |-> TRUE]>>,
                AuthorRel),
          StdTr("t2", PlainRel, <<Label("CVE-2024-21413"), Label("XSS"), Label("XSS")>>, <<>>),
          StdTr("t3", Absolute, <<Label("CWE-79"), Label("Local"), Label("")>>,
                Origin \o AuthorRel),
          StdTr("", RootRel, <<>>, <<>>),
          [StdTr("t4", HttpRel, <<>>, <<>>) EXCEPT !.ncells = 1]}
    \cup {SearchTr(4, "fix for CVE-2024-21413", RootRel, Date("DD.MM.Y", 3), AuthorRel),
          SearchTr(3, "s2", HttpRel, Date("M/D/Y", 4), AuthorRel),
          SearchTr(2, "s3", RootRel, Date("Y-M-D", 5), <<>>)}

Script(mention, tot, cur, per) == [mention |-> mention, tot |-> tot, cur |-> cur, per |-> per]
Scripts ==
    {Script(TRUE, 25, 2, 10), Script(TRUE, 7, 0, 0), Script(TRUE, None, 3, None),
     Script(FALSE, None, 4, 30), Script(TRUE, 61, None, 30), Script(FALSE, None, None, None),
     Script(TRUE, MaxInt, 1, 10), Script(TRUE, MaxInt - 1, 1, 2)}

Tables == {t \in [striped : BOOLEAN, flat : BOOLEAN, pagIt : BOOLEAN] : t.striped \/ t.flat}

ListView(t, elems) ==
    [striped |-> t.striped, flat |-> t.flat, pagIt |-> t.pagIt, elems |-> elems]

MaxGroups == 3        \* elements of a date-grouped table
GroupElems ==
    {Thead(Date("Y-M-D", 1)), Thead(Date("DD.MM.Y", 2)), Thead(Junkdate),
     StdTr("t1", RootRel, <<>>, <<>>)}

\* list pages: every table shape with every row sequence, and every script sequence
ListDocs ==
    {[Junk EXCEPT !.list = ListView(t, es)] : t \in Tables, es \in SeqsUpTo(Elems, MaxRows)}
    \cup {[Junk EXCEPT !.list = ListView(t, es), !.scripts = ss] :
             t \in Tables, es \in SeqsUpTo({Thead(Date("Y-M-D", 1))}, 1),
             ss \in SeqsUpTo(Scripts, MaxScripts)}
    \cup {[Junk EXCEPT !.list = ListView(t, es)] :
             t \in Tables, es \in [1..MaxGroups -> GroupElems]}
    \cup {[Junk EXCEPT !.list = [EmptyList EXCEPT !.pagIt = b], !.scripts = ss] :
             b \in BOOLEAN, ss \in SeqsUpTo(Scripts, MaxScripts)}
    \cup BlankDocs


MaxTags == 3          \* wells / tag labels of one record

BaseDetail ==
    [title1 |-> "Detail title", title2 |-> "", risk |-> "High",
     cveText |-> "CVE-2024-21413", cweText |-> "CWE-79 XSS",
     localB |-> <<"No">>, remoteB |-> <<"Yes">>, dateCands |-> <<Date("Y.M.D", 6)>>,
     credit |-> TRUE, author |-> "alice", authorHref |-> AuthorRel, wells |-> <<>>]

Well(known, label) == [known |-> known, label |-> label]
Wells == {Well(TRUE, "High"), Well(FALSE, "CVE"), Well(FALSE, "Remote"),
          Well(FALSE, "N/A"), Well(FALSE, "Type:"), Well(FALSE, "")}

DetailViews ==
    {[BaseDetail EXCEPT !.title1 = t[1], !.title2 = t[2], !.cveText = c, !.cweText = c] :
        t \in {<<"Detail title", "other">>, <<"", "fallback">>, <<"", "">>},
        c \in {"", "n/a"}}
    \cup {[BaseDetail EXCEPT !.credit = h # <<>>, !.authorHref = h,
                             !.localB = b, !.remoteB = b] :
             h \in AuthorHrefs, b \in {<<>>, <<"Yes">>, <<"No">>, <<"No", "Yes">>}}
    \cup {[BaseDetail EXCEPT !.dateCands = ds] :
             ds \in SeqsUpTo({Date("Y.M.D", 6), Date("Y.M.D", 7), Junkdate}, MaxRows)}
    \cup {[BaseDetail EXCEPT !.wells = ws] : ws \in SeqsUpTo(Wells, MaxTags)}

DetailDocs == {[Junk EXCEPT !.detail = v] : v \in DetailViews} \cup {Junk} \cup BlankDocs

Related(ncells, title, href, date) ==
    [ncells |-> ncells, risk |-> "Med.", title |-> title, href |-> href,
     author |-> "bob", date |-> date]
RelatedSet ==
    {Related(4, "r1", RootRel, Date("DD.MM.Y", 8)), Related(4, "r2", Absolute, Date("D.M.Y", 9)),
     Related(4, "r3", <<>>, Junkdate), Related(3, "r4", RootRel, NoText),
     Related(4, "", PlainRel, NoText), Related(5, "r5", PlainRel, Date("Y-M-D", 10))}

Software(links, vendor, product) ==
    [links |-> links, vendorName |-> vendor, vendorURL |-> <<"/", "vendor">>,
     productName |-> product, productURL |-> <<"/", "product">>]

BaseCve ==
    [cveId |-> "CVE-2024-21413", published |-> Date("Y-M-D", 11),
     modified |-> Date("Y-M-D", 12), description |-> "text", type |-> "CWE-79",
     scores |-> <<75, 64, 86>>, attrRows |-> 4,
     headers1 |-> <<"Exploit range", "Attack complexity", "Authentication">>,
     values1 |-> <<"Remote", "Low", "No required">>,
     headers2 |-> <<"Confidentiality impact", "Integrity impact", "Availability impact">>,
     values2 |-> <<"Partial", "None", "Complete">>,
     affected |-> <<Software(2, "vendor", "product")>>,
     refs |-> <<Origin \o <<"/", "ref">>>>, related |-> <<>>]

CveViews ==
    {[BaseCve EXCEPT !.related = rs] : rs \in SeqsUpTo(RelatedSet, MaxRows)}
    \cup {[BaseCve EXCEPT !.scores = sc, !.attrRows = n, !.published = p] :
             sc \in {<<>>, <<75, None, 86>>, <<75, 64>>}, n \in 0..4,
             p \in {NoText, Date("Y-M-D", 11)}}
    \cup {[BaseCve EXCEPT !.affected = af, !.refs = rf] :
             af \in SeqsUpTo({Software(2, "vendor", "product"), Software(1, "v", "p"),
                              Software(2, "", "p")}, MaxRows),
             rf \in SeqsUpTo({Origin \o <<"/", "ref">>, <<"/", "local">>, <<>>}, MaxRows)}

CveDocs == {[Junk EXCEPT !.cve = v] : v \in CveViews} \cup {Junk} \cup BlankDocs

AuthorTr(ncells, title, href) ==
    [ncells |-> ncells, date |-> Date("Y-M-D", 13), title |-> title, href |-> href,
     risk |-> "High", fonts |-> <<"(XSS)", "">>, remote |-> "Remote"]
AuthorTrs ==
    {AuthorTr(0, "", <<>>), AuthorTr(3, "a1", RootRel), AuthorTr(3, "a2", RootRel),
     [AuthorTr(3, "a3", PlainRel) EXCEPT !.fonts = <<"(XSS)", "XSS">>],
     AuthorTr(3, "a4", Absolute), AuthorTr(2, "a5", NoMarker),
     [AuthorTr(3, "", NoMarker) EXCEPT !.date = NoText, !.remote = "Local"]}

Contact(label, value) == [label |-> label, value |-> value]

BaseAuthor ==
    [h1 |-> "alice", flag |-> "US", reported |-> 12,
     contacts |-> <<Contact("Twitter", "@alice")>>, rows |-> <<>>]

AuthorViews ==
    {[BaseAuthor EXCEPT !.rows = rs] : rs \in SeqsUpTo(AuthorTrs, MaxRows + 1)}
    \cup {[BaseAuthor EXCEPT !.flag = f, !.reported = n, !.contacts = cs] :
             f \in {"", "US", "XX", "ZZ"}, n \in {None, 0, 12},
             cs \in SeqsUpTo({Contact("Twitter", "@alice"), Contact("Website", "w"),
                              Contact("Zone-H", "z"), Contact("Description", "d"),
                              Contact("other", "o")}, MaxRows)}

AuthorDocs ==
    {[Junk EXCEPT !.author = v] : v \in AuthorViews}
    \cup {[Junk EXCEPT !.author = BaseAuthor, !.scripts = ss] :
             ss \in SeqsUpTo(Scripts, MaxScripts)}
    \cup {Junk} \cup BlankDocs


(***************************************************************************)
(* Client (pkg/crawler/client.go)                                          *)
(***************************************************************************)
DefaultMaxRetries == 3

\* NewClient(): the defaults
NewClient == [baseURL |-> Origin, maxRetries |-> DefaultMaxRetries]

\* WithRetry(n, _) applied to a client
WithRetry(c, n) == IF n > 0 THEN [c EXCEPT !.maxRetries = n] ELSE c

\* a status check that lets status 500 through as a success
doRequestAbove500(resp) ==
    CASE resp.kind = "neterr"  -> [content |-> EmptyString, err |-> <<"transport error">>]
      [] resp.kind = "readerr" -> [content |-> EmptyString, err |-> <<"read error">>]
      [] OTHER ->
           IF resp.status > 500 /\ resp.status < 600
           THEN [content |-> EmptyString, err |-> <<"server error", ToString(resp.status)>>]
           ELSE [content |-> resp.body, err |-> NoErr]

\* a request that drops the body it read
doRequestNoBody(resp) ==
    CASE resp.kind = "neterr"  -> [content |-> EmptyString, err |-> <<"transport error">>]
      [] resp.kind = "readerr" -> [content |-> EmptyString, err |-> <<"read error">>]
      [] OTHER ->
           IF resp.status >= 500 /\ resp.status < 600
           THEN [content |-> EmptyString, err |-> <<"server error", ToString(resp.status)>>]
           ELSE [content |-> EmptyString, err |-> NoErr]

(* A server response is [kind, status, body]: kind "neterr" (client.Do      *)
(* fails), "readerr" (reading the body fails) or "http".                   *)
\* Client.doRequest: the (content, err) it returns for a response
doRequest(resp) ==
    CASE resp.kind = "neterr"  -> [content |-> EmptyString, err |-> <<"transport error">>]
      [] resp.kind = "readerr" -> [content |-> EmptyString, err |-> <<"read error">>]
      [] OTHER ->
           IF resp.status >= 500 /\ resp.status < 600
           THEN [content |-> EmptyString, err |-> <<"server error", ToString(resp.status)>>]
           ELSE [content |-> resp.body, err |-> NoErr]

(***************************************************************************)
(* Crawler (pkg/crawler/crawler.go, search.go)                             *)
(*                                                                         *)
(* A call is [name, arg, page, perPage, sortOrder, today, out]: arg is the *)
(* path, id or keyword; out is "" when outputPath is empty, "file"         *)
(* otherwise.  Each facade operator below maps the result of GetPage       *)
(* ([content, err]) to what the method returns; saveOK tells whether       *)
(* writing the output file succeeds.                                       *)
(***************************************************************************)
Wrap(msg, err) == <<msg>> \o err           \* fmt.Errorf(msg + ": %w", err)

Failed(msg, err) == [err |-> Wrap(msg, err), val |-> Nil, ran |-> "none"]

\* the save step shared by the Crawl* methods
Saved(o, saveOK, msg, result, ran) ==
    IF o.out # "" /\ ~saveOK
    THEN [err |-> Wrap(msg, <<"write error">>), val |-> Nil, ran |-> ran]
    ELSE [err |-> NoErr, val |-> result, ran |-> ran]

\* CrawlPage once ParseListPage has returned r
PageParsed(o, r, saveOK) ==
    IF r.err # NoErr
    THEN [Failed("parse page content failed", r.err) EXCEPT !.ran = "list"]
    ELSE Saved(o, saveOK, "save result failed", r.val, "list")

CrawlPage(o, fetch, saveOK) ==
    IF fetch.err # NoErr THEN Failed("get page content failed", fetch.err)
    ELSE PageParsed(o, ParseListPage(fetch.content), saveOK)

\* the path CrawlVulnerabilityDetail hands to GetPage
DetailPath(p) == IF p # <<>> /\ ~HasPrefix(p, <<"/">>) THEN <<"/">> \o p ELSE p

\* a record URL built from the requested path as it is
cleanPathUnchanged(p) == p

\* the path CrawlVulnerabilityDetail builds the record's URL from
cleanPath(p) == IF Contains(p, IssueWLBWLB) THEN Replace1(p, IssueWLBWLB, IssueWLB) ELSE p

\* CrawlVulnerabilityDetail once ParseVulnerabilityDetailPage has returned r
DetailParsed(o, p, base, r, saveOK) ==
    IF r.err # NoErr
    THEN [Failed("parse vulnerability detail page content failed", r.err)
            EXCEPT !.ran = "detail"]
    ELSE Saved(o, saveOK, "save vulnerability detail failed",
               IF r.val.URL = <<>> THEN [r.val EXCEPT !.URL = base \o cleanPath(p)]
               ELSE r.val,
               "detail")

CrawlVulnerabilityDetail(o, p, base, fetch, saveOK) ==
    IF fetch.err # NoErr THEN Failed("get vulnerability detail page content failed", fetch.err)
    ELSE DetailParsed(o, p, base, ParseVulnerabilityDetailPage(fetch.content), saveOK)

\* CrawlCveDetail once ParseCveDetailPage has returned r
CveParsed(o, r, saveOK) ==
    IF r.err # NoErr
    THEN [Failed("parse CVE detail page content failed", r.err) EXCEPT !.ran = "cve"]
    ELSE Saved(o, saveOK, "save CVE detail failed", r.val, "cve")

CrawlCveDetail(o, fetch, saveOK) ==
    IF fetch.err # NoErr THEN Failed("get CVE detail page content failed", fetch.err)
    ELSE CveParsed(o, ParseCveDetailPage(fetch.content), saveOK)

\* a path composed without looking for the prefix the id already has
ExploitPathAlwaysPrefixed(id) ==
    IF id = <<>> THEN <<"/", "exploit", "/", "1">> ELSE <<"/", "issue", "/", "WLB-">> \o id

\* the path CrawlExploit composes from the id
ExploitPath(id) ==
    IF id = <<>> THEN <<"/", "exploit", "/", "1">>
    ELSE IF HasPrefix(id, WLB) THEN <<"/", "issue", "/">> \o id
    ELSE IssueWLB \o id

RECURSIVE ItemIDs(_)
ItemIDs(items) ==
    IF items = <<>> THEN <<>>
    ELSE LET it == Head(items)
             id == IdFromURL(it.URL)
         IN <<IF it.URL # <<>> /\ Index(it.URL, WLB) # 0 THEN [it EXCEPT !.ID = id] ELSE it>>
            \o ItemIDs(Tail(items))

\* CrawlExploit once CrawlVulnerabilityDetail has returned r
ExploitDetail(r) ==
    IF r.err # NoErr THEN r
    ELSE IF r.val.URL # <<>> /\ Contains(r.val.URL, WLB)
         THEN [r EXCEPT !.val.ID = From(r.val.URL, Index(r.val.URL, WLB))]
         ELSE r

\* CrawlExploit once CrawlPage has returned r
ExploitList(r) ==
    IF r.err # NoErr THEN r ELSE [r EXCEPT !.val.Items = ItemIDs(r.val.Items)]

CrawlExploit(o, p, base, fetch, saveOK) ==
    IF Contains(ExploitPath(o.arg), IssueWLB)
    THEN ExploitDetail(CrawlVulnerabilityDetail(o, p, base, fetch, saveOK))
    ELSE ExploitList(CrawlPage(o, fetch, saveOK))

\* CrawlAuthor once the author parser has returned r
AuthorParsed(o, r, saveOK) ==
    IF r.err # NoErr
    THEN [Failed("parse author page content failed", r.err) EXCEPT !.ran = "author"]
    ELSE Saved(o, saveOK, "save author result failed",
               IF r.val.ID = <<>> THEN [r.val EXCEPT !.ID = o.arg] ELSE r.val,
               "author")

CrawlAuthor(o, fetch, saveOK) ==
    IF fetch.err # NoErr THEN Failed("get author page content failed", fetch.err)
    ELSE AuthorParsed(o, AuthorParse(fetch.content), saveOK)

\* url.QueryEscape, token by token
QueryEscape(k) ==
    [i \in 1..Len(k) |-> CASE k[i] = " " -> "+" [] k[i] = "/" -> "%2F" [] OTHER -> k[i]]

\* a perPage passed on as given
SearchPerPageAsGiven(perPage) == perPage

\* the perPage / sortOrder defaults of SearchVulnerabilitiesAdvanced (lines 130-136)
SearchPerPage(perPage) == IF perPage # 10 /\ perPage # 30 THEN 10 ELSE perPage
SearchSortOrder(sortOrder) ==
    IF sortOrder # "ASC" /\ sortOrder # "DESC" THEN "DESC" ELSE sortOrder

SearchPath(o) ==
    <<"/", "search", "/", "wlb", "/", SearchSortOrder(o.sortOrder), "/", "AND", "/">>
    \o o.today \o <<".", "1999.1.1", "/", ToString(o.page), "/",
                    ToString(SearchPerPage(o.perPage)), "/">>
    \o QueryEscape(o.arg) \o <<"/">>

RECURSIVE SearchItems(_)
SearchItems(items) ==
    IF items = <<>> THEN <<>>
    ELSE LET item == Head(items)
             id == IF item.ID # <<>> THEN item.ID
                   ELSE IF item.URL # <<>> /\ Contains(item.URL, WLB)
                        THEN From(item.URL, Index(item.URL, WLB))
                        ELSE <<"unknown">>
         IN <<[ID |-> id, Title |-> item.Title, URL |-> item.URL,
               Date |-> IF item.Date # ZeroDate THEN ToString(item.Date) ELSE "unknown",
               RiskLevel |-> item.RiskLevel, Author |-> item.Author,
               AuthorURL |-> item.AuthorURL]>>
            \o SearchItems(Tail(items))

\* SearchVulnerabilitiesAdvanced once ParseListPage has returned r
SearchParsed(o, r, saveOK) ==
    IF r.err # NoErr
    THEN [Failed("parse search result page content failed", r.err) EXCEPT !.ran = "list"]
    ELSE Saved(o, saveOK, "save search result failed",
               [Keyword |-> o.arg, CurrentPage |-> r.val.CurrentPage,
                TotalPages |-> r.val.TotalPages,
                SortOrder |-> SearchSortOrder(o.sortOrder),
                PerPage |-> SearchPerPage(o.perPage),
                Vulnerabilities |-> SearchItems(r.val.Items)],
               "list")

SearchVulnerabilitiesAdvanced(o, fetch, saveOK) ==
    IF fetch.err # NoErr THEN Failed("get search result page content failed", fetch.err)
    ELSE SearchParsed(o, ParseListPage(fetch.content), saveOK)

\* the path a call hands to Client.GetPage
PathOf(o) ==
    CASE o.name \in {"GetPage", "CrawlPage"} -> o.arg
      [] o.name = "CrawlVulnerabilityDetail" -> DetailPath(o.arg)
      [] o.name = "CrawlCveDetail" -> <<"/", "cveshow", "/">> \o o.arg \o <<"/">>
      [] o.name = "CrawlExploit" ->
            IF Contains(ExploitPath(o.arg), IssueWLB)
            THEN DetailPath(ExploitPath(o.arg)) ELSE ExploitPath(o.arg)
      [] o.name = "CrawlAuthor" -> <<"/", "author", "/">> \o o.arg \o <<"/", "1", "/">>
      [] o.name = "SearchVulnerabilitiesAdvanced" -> SearchPath(o)

\* what the call returns once GetPage has returned fetch
Return(o, p, base, fetch, saveOK) ==
    CASE o.name = "GetPage" -> [err |-> fetch.err, val |-> fetch.content, ran |-> "none"]
      [] o.name = "CrawlPage" -> CrawlPage(o, fetch, saveOK)
      [] o.name = "CrawlVulnerabilityDetail" ->
            CrawlVulnerabilityDetail(o, p, base, fetch, saveOK)
      [] o.name = "CrawlCveDetail" -> CrawlCveDetail(o, fetch, saveOK)
      [] o.name = "CrawlExploit" -> CrawlExploit(o, p, base, fetch, saveOK)
      [] o.name = "CrawlAuthor" -> CrawlAuthor(o, fetch, saveOK)
      [] o.name = "SearchVulnerabilitiesAdvanced" ->
            SearchVulnerabilitiesAdvanced(o, fetch, saveOK)


(***************************************************************************)
(* The calls and the server responses the model explores                   *)
(***************************************************************************)
Ids == {<<>>, <<"2024">>, <<"WLB-", "2024">>, <<"WLB-", "WLB-", "2024">>,
        <<"7", "/", "x">>, <<"WLB-", "7", "/", "x">>}
DetailPaths == {IssueWLB \o <<"2024">>, <<"issue", "/", "WLB-", "2024">>,
                IssueWLBWLB \o <<"2024">>, <<>>}
Keywords == {<<"xss">>, <<"a", "/", "b">>}
PerPages == {10, 20, 30}
SortOrders == {"ASC", "DESC", "BAD"}
Today == <<"2026.11.5">>

Call(name, arg) ==
    [name |-> name, arg |-> arg, page |-> 1, perPage |-> 10, sortOrder |-> "DESC",
     today |-> Today, out |-> ""]

Calls ==
    {[Call(c.name, c.arg) EXCEPT !.out = out] :
        c \in ([name : {"GetPage"}, arg : {<<"/", "test">>}]
               \cup [name : {"CrawlPage"}, arg : {<<"/", "exploit", "/", "2">>}]
               \cup [name : {"CrawlVulnerabilityDetail"}, arg : DetailPaths]
               \cup [name : {"CrawlCveDetail"}, arg : {<<"CVE-2024-21413">>}]
               \cup [name : {"CrawlExploit"}, arg : Ids]
               \cup [name : {"CrawlAuthor"}, arg : {<<"alice">>}]),
        out \in {"", "file"}}
    \cup {[Call("SearchVulnerabilitiesAdvanced", <<"sql", " ", "injection">>) EXCEPT
              !.page = pg, !.perPage = pp, !.sortOrder = so, !.out = out] :
             pg \in 0..MaxPage, pp \in PerPages, so \in SortOrders, out \in {"", "file"}}
    \cup {Call("SearchVulnerabilitiesAdvanced", k) : k \in Keywords}

StdPage ==
    [Junk EXCEPT !.list = ListView([striped |-> TRUE, flat |-> FALSE, pagIt |-> FALSE],
                                   <<Thead(Date("Y-M-D", 1)),
                                     StdTr("t1", RootRel, <<Label("CVE"), Label("Remote")>>,
                                           AuthorRel)>>),
                 !.scripts = <<Script(TRUE, 25, 2, 10)>>]
SearchPage ==
    [Junk EXCEPT !.list = ListView([striped |-> FALSE, flat |-> TRUE, pagIt |-> TRUE],
                                   <<Thead(NoText),
                                     SearchTr(4, "s1", PlainRel, Date("DD.MM.Y", 3),
                                              AuthorRel)>>),
                 !.scripts = <<Script(TRUE, 61, 2, 30)>>]
\* a search page whose only result links outside /issue/
UnmarkedPage ==
    [Junk EXCEPT !.list = ListView([striped |-> FALSE, flat |-> TRUE, pagIt |-> TRUE],
                                   <<Thead(NoText),
                                     SearchTr(4, "s4", NoMarker, Date("DD.MM.Y", 3),
                                              <<>>)>>)]
DetailPage == [Junk EXCEPT !.detail = BaseDetail]
CvePage == [Junk EXCEPT !.cve = [BaseCve EXCEPT !.related =
                                    <<Related(4, "r1", RootRel, Date("DD.MM.Y", 8))>>]]
AuthorPage == [Junk EXCEPT !.author = [BaseAuthor EXCEPT !.rows =
                                          <<AuthorTr(0, "", <<>>), AuthorTr(3, "a1", RootRel)>>]]

\* the pages the site serves at the path of a call
Bodies(o) ==
    BlankDocs \cup {Junk}
    \cup CASE o.name = "CrawlPage" -> {StdPage, SearchPage}
           [] o.name = "SearchVulnerabilitiesAdvanced" -> {StdPage, SearchPage, UnmarkedPage}
           [] o.name = "CrawlVulnerabilityDetail" -> {DetailPage}
           [] o.name = "CrawlExploit" ->
                 IF o.arg = <<>> THEN {StdPage, SearchPage} ELSE {DetailPage}
           [] o.name = "CrawlCveDetail" -> {CvePage}
           [] o.name = "CrawlAuthor" -> {AuthorPage}
           [] OTHER -> {StdPage}

Statuses == {200, 404, 499, 500, 503, 599, 600}

Responses(o) ==
    {[kind |-> k, status |-> 0, body |-> EmptyString] : k \in {"neterr", "readerr"}}
    \cup {[kind |-> "http", status |-> st, body |-> b] :
             st \in {x \in Statuses : x < 500 \/ x >= 600}, b \in Bodies(o)}
    \cup {[kind |-> "http", status |-> st, body |-> Junk] :
             st \in {x \in Statuses : x >= 500 /\ x < 600}}

(***************************************************************************)
(* The state machine                                                       *)
(***************************************************************************)
NoCall == Call("none", <<>>)
NoResp == [kind |-> "none", status |-> 0]
NoRet == [err |-> NoErr, val |-> Nil]

\* the search command before Run
CliIdle ==
    [pc |-> "idle", searchPage |-> 0, searchNoPaging |-> FALSE, perPage |-> 0,
     sortOrder |-> "", currentPage |-> 0, reqs |-> <<>>, result |-> Nil, answer |-> ""]

\* the REST server before Run
ApiDown ==
    [up |-> FALSE, apiToken |-> "", enableCORS |-> FALSE, req |-> Nil, status |-> 0,
     ran |-> "", allowOrigin |-> ""]

MaxCallers == 2       \* goroutines calling into one Crawler at the same time
Callers == 1..MaxCallers

\* the locals of one call: its arguments, GetPage's attempt and lastErr, the
\* response its last doRequest received (history), the value it returned, and
\* (history, searches only) the value a search with the same arguments had
\* returned to another caller when this one began
NoLocals ==
    [pc |-> "idle", op |-> NoCall, attempt |-> 0, lastErr |-> NoErr, lastResp |-> NoResp,
     ret |-> [err |-> NoErr, val |-> Nil, ran |-> "none"], prior |-> Nil]

Init ==
    /\ retryOpt \in {None} \cup 0..MaxRetryArg
    /\ maxRetries = (IF retryOpt = None THEN NewClient
                     ELSE WithRetry(NewClient, retryOpt)).maxRetries
    /\ baseURL \in {NewClient.baseURL, <<>>}
    /\ pc = "idle"
    /\ op = NoCall
    /\ path = <<>>
    /\ attempt = 0
    /\ log = <<>>
    /\ last = NoResp
    /\ sleeps = 0
    /\ lastErr = NoErr
    /\ firstErr = NoErr
    /\ served = EmptyString
    /\ extractor = "none"
    /\ ret = NoRet
    /\ calls = [c \in Callers |-> NoLocals]
    /\ cli = CliIdle
    /\ api = ApiDown

\* the call returns: fetch is what GetPage returned
Returned(r) ==
    /\ pc' = "done"
    /\ ret' = [err |-> r.err, val |-> r.val]
    /\ extractor' = r.ran

Finish(o, p, fetch, saveOK) == Returned(Return(o, p, baseURL, fetch, saveOK))

\* a check that never finds the base URL missing
BaseURLNeverUnset(b) == FALSE

\* GetPage's check of the base URL
BaseURLUnset(b) == b = <<>>

\* an error variable that keeps the first error it was given
KeepFirstErr(prev, err) == IF prev # NoErr THEN prev ELSE err

\* GetPage's lastErr = err
KeepErr(prev, err) == err

\* a facade or client method is called; GetPage checks baseURL and enters its loop
Begin(o) ==
    /\ pc = "idle"
    /\ op' = o
    /\ path' = PathOf(o)
    /\ attempt' = 0
    /\ log' = <<>>
    /\ last' = NoResp
    /\ sleeps' = 0
    /\ lastErr' = NoErr
    /\ firstErr' = NoErr
    /\ served' = EmptyString
    /\ IF BaseURLUnset(baseURL)
       THEN Returned(Return(o, PathOf(o), baseURL,
                            [content |-> EmptyString, err |-> <<"baseURL not set">>], TRUE))
       ELSE pc' = "fetch" /\ ret' = NoRet /\ extractor' = "none"
    /\ UNCHANGED <<retryOpt, maxRetries, baseURL, calls, cli, api>>

\* a loop that stops one attempt early
LoopCondExclusive(a, n) == a < n

\* GetPage's loop condition
LoopCond(a, n) == a <= n

\* a delay before the first attempt as well
SleepBeforeEvery(a) == TRUE

\* GetPage sleeps retryDelay before every attempt but the first (lines 106-108)
SleepBefore(a) == a > 0

\* one iteration of GetPage's loop; the last one returns to the caller
Attempt(resp, saveOK) ==
    /\ pc = "fetch"
    /\ LoopCond(attempt, maxRetries)
    /\ LET r == doRequest(resp)
       IN /\ sleeps' = IF SleepBefore(attempt) THEN sleeps + 1 ELSE sleeps
          /\ log' = Append(log, r.err = NoErr)
          /\ last' = [kind |-> resp.kind, status |-> resp.status]
          /\ served' = resp.body
          \* lastErr is a local: dead once GetPage returns
          /\ lastErr' = IF r.err = NoErr THEN NoErr ELSE KeepErr(lastErr, r.err)
          /\ firstErr' = IF r.err # NoErr /\ firstErr = NoErr THEN r.err ELSE firstErr
          /\ attempt' = IF r.err = NoErr THEN attempt ELSE attempt + 1
          /\ IF r.err # NoErr /\ LoopCond(attempt + 1, maxRetries)
             THEN UNCHANGED <<pc, ret, extractor>>            \* next iteration
             ELSE IF r.err = NoErr
             THEN Finish(op, path, r, saveOK)                 \* return content, nil
             ELSE Finish(op, path, [content |-> EmptyString,  \* return "", lastErr
                                    err |-> KeepErr(lastErr, r.err)], saveOK)
    /\ UNCHANGED <<retryOpt, maxRetries, baseURL, op, path, calls, cli, api>>

\* an extractor is called directly on a document
Parse(name, d) ==
    /\ pc = "idle"
    /\ op' = Call(name, <<>>)
    /\ served' = d
    /\ LET r == CASE name = "ParseListPage" -> ParseListPage(d)
                  [] name = "ParseVulnerabilityDetailPage" -> ParseVulnerabilityDetailPage(d)
                  [] name = "ParseCveDetailPage" -> ParseCveDetailPage(d)
                  [] name = "AuthorParse" -> AuthorParse(d)
       IN ret' = [err |-> r.err, val |-> r.val]
    /\ extractor' = name
    /\ pc' = "done"
    /\ path' = <<>>
    /\ attempt' = 0
    /\ log' = <<>>
    /\ last' = NoResp
    /\ sleeps' = 0
    /\ lastErr' = NoErr
    /\ firstErr' = NoErr
    /\ UNCHANGED <<retryOpt, maxRetries, baseURL, calls, cli, api>>

\* the caller takes the result; the crawler holds nothing of the finished call
Done ==
    /\ pc = "done"
    /\ pc' = "idle"
    /\ op' = NoCall
    /\ path' = <<>>
    /\ attempt' = 0
    /\ log' = <<>>
    /\ last' = NoResp
    /\ sleeps' = 0
    /\ lastErr' = NoErr
    /\ firstErr' = NoErr
    /\ served' = EmptyString
    /\ extractor' = "none"
    /\ ret' = NoRet
    /\ UNCHANGED <<retryOpt, maxRetries, baseURL, calls, cli, api>>

\* the crawler: facade calls over the fetcher
Next ==
    \/ \E o \in Calls : Begin(o)
    \/ \E resp \in Responses(op), saveOK \in BOOLEAN : Attempt(resp, saveOK)
    \/ Done

Spec == Init /\ [][Next]_vars

(***************************************************************************)
(* Concurrent calls on one Crawler.  Crawler.client, Crawler.parser and    *)
(* the fields of Client are assigned during construction only; everything  *)
(* a call writes is a local variable of GetPage, doRequest or the Crawl*   *)
(* method.  A step is one statement of GetPage that touches lastErr.       *)
(***************************************************************************)
seqVars == <<pc, op, path, attempt, log, last, sleeps, firstErr, lastErr, served,
             extractor, ret>>

ConcCalls ==
    {Call("GetPage", <<"/", "test">>), Call("CrawlExploit", <<"2024">>),
     Call("SearchVulnerabilitiesAdvanced", <<"xss">>)}
ConcResponses(o) ==
    {[kind |-> "neterr", status |-> 0, body |-> EmptyString],
     [kind |-> "http", status |-> 503, body |-> Junk],
     [kind |-> "http", status |-> 200,
      body |-> IF o.name = "CrawlExploit" THEN DetailPage ELSE StdPage]}
    \cup IF o.name = "SearchVulnerabilitiesAdvanced"
         THEN {[kind |-> "http", status |-> 200, body |-> SearchPage]}
         ELSE {}

\* the callers other than c to which the search o has returned a result
Answered(cs, c, o) ==
    {d \in Callers \ {c} : /\ o.name = "SearchVulnerabilitiesAdvanced"
                            /\ cs[d].pc = "done" /\ cs[d].op = o /\ cs[d].ret.err = NoErr}
PriorOf(cs, S) == IF S = {} THEN Nil ELSE cs[CHOOSE d \in S : TRUE].ret

\* a lastErr kept in one place for all the calls
ErrSlotShared(c) == 1

\* where the lastErr of caller c lives: in the frame of its own GetPage
ErrSlot(c) == c

SetErr(cs, c, e) == [cs EXCEPT ![ErrSlot(c)].lastErr = e]
ReturnC(cs, c, r) == [cs EXCEPT ![c].pc = "done", ![c].ret = r]

\* caller c enters a facade method and, through it, GetPage
BeginC(c, o) ==
    /\ calls[c].pc = "idle"
    /\ calls' =
          IF BaseURLUnset(baseURL)
          THEN ReturnC([calls EXCEPT ![c].op = o], c,
                       Return(o, PathOf(o), baseURL,
                              [content |-> EmptyString, err |-> <<"baseURL not set">>], TRUE))
          ELSE SetErr([calls EXCEPT ![c] =
                         [NoLocals EXCEPT !.pc = "fetch", !.op = o,
                                          !.prior = PriorOf(calls, Answered(calls, c, o))]],
                      c, NoErr)
    /\ UNCHANGED <<retryOpt, maxRetries, baseURL, seqVars, cli, api>>

AttemptedC(cs, c, resp, r) ==
    IF r.err = NoErr
    THEN ReturnC([cs EXCEPT ![c].lastResp = resp], c,
                 Return(cs[c].op, PathOf(cs[c].op), baseURL, r, TRUE))
    ELSE SetErr([cs EXCEPT ![c].lastResp = resp, ![c].attempt = @ + 1], c,
                KeepErr(cs[ErrSlot(c)].lastErr, r.err))

\* one iteration of the loop in caller c's GetPage
AttemptC(c, resp) ==
    /\ calls[c].pc = "fetch"
    /\ LoopCond(calls[c].attempt, maxRetries)
    /\ calls' = AttemptedC(calls, c, resp, doRequest(resp))
    /\ UNCHANGED <<retryOpt, maxRetries, baseURL, seqVars, cli, api>>

\* the loop of caller c's GetPage has ended: return "", lastErr
GiveUpC(c) ==
    /\ calls[c].pc = "fetch"
    /\ ~LoopCond(calls[c].attempt, maxRetries)
    /\ calls' = ReturnC(calls, c,
                        Return(calls[c].op, PathOf(calls[c].op), baseURL,
                               [content |-> EmptyString,
                                err |-> calls[ErrSlot(c)].lastErr], TRUE))
    /\ UNCHANGED <<retryOpt, maxRetries, baseURL, seqVars, cli, api>>

\* caller c takes its result
DoneC(c) ==
    /\ calls[c].pc = "done"
    /\ calls' = [calls EXCEPT ![c] = NoLocals]
    /\ UNCHANGED <<retryOpt, maxRetries, baseURL, seqVars, cli, api>>

ConcNext ==
    \/ \E c \in Callers, o \in ConcCalls : BeginC(c, o)
    \/ \E c \in Callers : \E resp \in ConcResponses(calls[c].op) : AttemptC(c, resp)
    \/ \E c \in Callers : GiveUpC(c)
    \/ \E c \in Callers : DoneC(c)

\* a client built with WithRetry(1, _): every call makes at most two attempts
ConcInit == Init /\ retryOpt = 1

ConcSpec == ConcInit /\ [][ConcNext]_vars

(***************************************************************************)
(* The search command (cmd/search.go, searchCmd.Run).  A step is Run up to *)
(* the loop, one SearchVulnerabilitiesAdvanced call with what follows it   *)
(* up to the prompt, or one answer read by askForNextPage.  The result of  *)
(* the search is [ok, TotalPages].                                         *)
(***************************************************************************)
MaxTotalPages == 3    \* largest TotalPages a search result reports

ToUpper(t) == CASE t = "asc" -> "ASC" [] t = "desc" -> "DESC" [] t = "bad" -> "BAD" [] OTHER -> t
\* strings.TrimSpace(strings.ToLower(text))
TrimLower(t) == CASE t = " Yes " -> "yes" [] t = "Y" -> "y" [] OTHER -> t

CliPerPages == {20, 30}
CliSortOrders == {"", "asc", "bad"}
Answers == {"y", " Yes ", "n", ""}
Outcomes == {[ok |-> FALSE, TotalPages |-> 0]}
            \cup {[ok |-> TRUE, TotalPages |-> n] : n \in 0..MaxTotalPages}

\* a loop that asks for one page more than the result reports
MorePagesInclusive(noPaging, currentPage, totalPages) == ~noPaging /\ currentPage <= totalPages

\* !searchNoPaging && currentPage < result.TotalPages (line 75)
MorePages(noPaging, currentPage, totalPages) == ~noPaging /\ currentPage < totalPages

\* askForNextPage: text == "y" || text == "yes"
Confirms(text) == TrimLower(text) \in {"y", "yes"}

cliOthers == <<retryOpt, maxRetries, baseURL, seqVars, calls, api>>

\* Run, up to the loop
CliRun(page, noPaging, pp, so) ==
    /\ cli.pc = "idle"
    /\ cli' = [CliIdle EXCEPT
                 !.pc = "search", !.searchPage = page, !.searchNoPaging = noPaging,
                 !.perPage = IF pp # 10 /\ pp # 30 THEN 10 ELSE pp,
                 !.sortOrder = IF so # "" /\ ToUpper(so) \in {"ASC", "DESC"}
                               THEN ToUpper(so) ELSE "DESC",
                 !.currentPage = page]
    /\ UNCHANGED cliOthers

\* one iteration of the loop, up to the prompt
CliSearch(out) ==
    /\ cli.pc = "search"
    /\ cli' = [cli EXCEPT
                 !.reqs = Append(@, [page |-> cli.currentPage, perPage |-> cli.perPage,
                                     sortOrder |-> cli.sortOrder,
                                     suffixed |-> cli.currentPage > cli.searchPage]),
                 !.result = out,
                 !.answer = "",
                 !.pc = IF ~out.ok THEN "end"
                        ELSE IF MorePages(cli.searchNoPaging, cli.currentPage, out.TotalPages)
                        THEN "ask" ELSE "end"]
    /\ UNCHANGED cliOthers

\* askForNextPage has read a line
CliAnswer(text) ==
    /\ cli.pc = "ask"
    /\ cli' = [cli EXCEPT !.answer = text,
                          !.pc = IF Confirms(text) THEN "search" ELSE "end",
                          !.currentPage = IF Confirms(text) THEN @ + 1 ELSE @]
    /\ UNCHANGED cliOthers

CliNext ==
    \/ \E page \in 0..MaxPage, noPaging \in BOOLEAN, pp \in CliPerPages, so \in CliSortOrders :
          CliRun(page, noPaging, pp, so)
    \/ \E out \in Outcomes : CliSearch(out)
    \/ \E text \in Answers : CliAnswer(text)

\* the command creates its crawler with NewCrawler(): the default client
CliInit == Init /\ retryOpt = None /\ baseURL = NewClient.baseURL

CliSpec == CliInit /\ [][CliNext]_vars

(***************************************************************************)
(* The REST server (cmd/api.go).  apiCmd.Run fixes the token and registers *)
(* every /api route as corsMiddleware(authMiddleware(handler)) for the     *)
(* methods GET and OPTIONS; "/" is registered without middleware and for   *)
(* every method.  A request is [method, route, header, query]: header is   *)
(* the value of X-API-Token, query that of the parameter token, "" when    *)
(* absent.  What the router answers to a method a route is not registered  *)
(* for depends on the version of gorilla/mux: 405 or 404.                  *)
(***************************************************************************)
Protected == {"/api/exploit", "/api/search"}
Requests ==
    [method : {"GET", "OPTIONS", "POST"}, route : Protected \cup {"/"},
     header : {"", "secret", "wrong"}, query : {"", "secret", "random-hex"}]

\* a token read from the header only
RequestTokenHeaderOnly(req) == req.header

\* authMiddleware: the header X-API-Token, the parameter token when it is empty
RequestToken(req) == IF req.header = "" THEN req.query ELSE req.header

apiOthers == <<retryOpt, maxRetries, baseURL, seqVars, calls, cli>>

\* apiCmd.Run up to ListenAndServe
ApiRun(flag, cors, randOK) ==
    /\ ~api.up
    /\ api' = [ApiDown EXCEPT
                 !.up = TRUE, !.enableCORS = cors,
                 !.apiToken = IF flag # "" THEN flag
                              ELSE IF randOK THEN "random-hex" ELSE "default-token-error"]
    /\ UNCHANGED apiOthers

\* corsMiddleware(authMiddleware(handler)) on a request the router passed on
Served(a, req) ==
    LET cors == IF a.enableCORS THEN "*" ELSE ""
    IN IF req.method = "OPTIONS"
       THEN [a EXCEPT !.req = req, !.allowOrigin = cors, !.status = 200, !.ran = ""]
       ELSE IF RequestToken(req) # a.apiToken
       THEN [a EXCEPT !.req = req, !.allowOrigin = cors, !.status = 401, !.ran = ""]
       ELSE [a EXCEPT !.req = req, !.allowOrigin = cors, !.status = 200, !.ran = req.route]

\* the server answers one request
ApiRequest(req, mismatch) ==
    /\ api.up
    /\ api' = IF req.route = "/"
              THEN [api EXCEPT !.req = req, !.allowOrigin = "", !.status = 200, !.ran = "/"]
              ELSE IF req.method \notin {"GET", "OPTIONS"}
              THEN [api EXCEPT !.req = req, !.allowOrigin = "", !.status = mismatch,
                               !.ran = ""]
              ELSE Served(api, req)
    /\ UNCHANGED apiOthers

ApiNext ==
    \/ \E flag \in {"", "secret"}, cors \in BOOLEAN, randOK \in BOOLEAN :
          ApiRun(flag, cors, randOK)
    \/ \E req \in Requests, mismatch \in {404, 405} : ApiRequest(req, mismatch)

ApiSpec == CliInit /\ [][ApiNext]_vars

\* the extractors alone, on every document of the bounded sets
ParseInit == Init /\ retryOpt = None /\ baseURL = NewClient.baseURL

ParseNext ==
    \/ \E d \in ListDocs : Parse("ParseListPage", d)
    \/ \E d \in DetailDocs : Parse("ParseVulnerabilityDetailPage", d)
    \/ \E d \in CveDocs : Parse("ParseCveDetailPage", d)
    \/ \E d \in AuthorDocs : Parse("AuthorParse", d)
    \/ Done

ParseSpec == ParseInit /\ [][ParseNext]_vars

(***************************************************************************)
(* Properties                                                              *)
(***************************************************************************)
\* the attempts of the current call that failed / succeeded
Failures == {i \in 1..Len(log) : ~log[i]}
Successes == {i \in 1..Len(log) : log[i]}
InGetPageLoop == op.name # "none" /\ baseURL # <<>>

\* C1: when every attempt fails, one GetPage call on a client with
\* max_retries = N makes exactly N + 1 request attempts and then returns an
\* error; and no call ever makes more than N + 1 attempts.
C1_AllFailedAttempts ==
    /\ Len(log) <= maxRetries + 1
    /\ (InGetPageLoop /\ Successes = {}) =>
          /\ pc = "fetch" <=> Len(log) < maxRetries + 1
          /\ pc = "done" <=> Len(log) = maxRetries + 1
          /\ pc = "done" => ret.err # NoErr /\ ret.val = (IF op.name = "GetPage"
                                                            THEN EmptyString ELSE Nil)

C1_Witness ==
    /\ pc = "done" /\ op.name = "GetPage" /\ retryOpt = 2 /\ maxRetries = 2
    /\ log = <<FALSE, FALSE, FALSE>> /\ ret.err = <<"transport error">>

\* what a failed attempt leaves behind: an error is recorded, and the loop
\* goes on to the next attempt unless max_retries + 1 attempts were made
FailedAttempt ==
    /\ ~log[Len(log)]
    /\ lastErr # NoErr
    /\ attempt = Len(log)
    /\ pc = "fetch" <=> attempt <= maxRetries
    /\ pc = "done" <=> attempt = maxRetries + 1
    /\ pc = "done" => ret.err # NoErr

\* C2: a response whose status is in 500-599 is a failed attempt, retried
\* exactly like a transport error; a response with any other status ends
\* the call successfully, GetPage returning the body unchanged.
C2_ServerErrorRetried ==
    /\ last.kind = "neterr" => FailedAttempt
    /\ (last.kind = "http" /\ last.status \in 500..599) => FailedAttempt
    /\ (last.kind = "http" /\ last.status \notin 500..599) =>
          /\ log[Len(log)]
          /\ pc = "done"
          /\ op.name = "GetPage" => ret = [err |-> NoErr, val |-> served]

C2_Witness ==
    /\ pc = "fetch" /\ op.name = "GetPage" /\ last = [kind |-> "http", status |-> 599]
    /\ log = <<FALSE, FALSE>> /\ attempt = 2 /\ maxRetries = 3

\* C3: if the first k attempts fail (k <= max_retries) and attempt k + 1
\* succeeds, GetPage returns that attempt's body with no error and exactly
\* k + 1 requests were made: nothing is requested after the first success.
C3_FirstSuccessEnds ==
    Successes # {} =>
        /\ Successes = {Len(log)}
        /\ Len(log) = attempt + 1
        /\ attempt <= maxRetries
        /\ pc = "done"
        /\ op.name = "GetPage" => ret = [err |-> NoErr, val |-> served]

C3_Witness ==
    /\ pc = "done" /\ op.name = "GetPage" /\ log = <<FALSE, FALSE, TRUE>>
    /\ attempt = 2 /\ maxRetries = 2 /\ served = StdPage /\ ret.val = StdPage
\* an extractor has returned for the document in served
Extracted == pc = "done" /\ extractor # "none"

\* C4: every extractor (list, detail, CVE detail, author), given document
\* text that is empty or only whitespace, returns an explicit error and no
\* record.
C4_BlankIsError ==
    (Extracted /\ IsBlank(served)) => (ret.err # NoErr /\ ret.val = Nil)

\* the author extractor takes the empty text and returns a profile
C4_Witness ==
    /\ Extracted /\ extractor = "AuthorParse" /\ served = EmptyString
    /\ ret.err = NoErr /\ ret.val.Country = "unknown" /\ ret.val.TotalPages = 1

\* the record in which every field has its zero value or its default
ZeroRecord(name) ==
    CASE name = "ParseListPage" -> [Items |-> <<>>, CurrentPage |-> 0, TotalPages |-> 0]
      [] name = "ParseVulnerabilityDetailPage" ->
            [Date |-> 0, Title |-> "", URL |-> <<>>, ID |-> <<>>, RiskLevel |-> "",
             Tags |-> <<>>, CVE |-> "", CWE |-> "", IsRemote |-> FALSE, IsLocal |-> FALSE,
             Author |-> "", AuthorURL |-> <<>>]
      [] name = "ParseCveDetailPage" ->
            [CveID |-> "", Published |-> 0, Modified |-> 0, Description |-> "", Type |-> "",
             CvssBaseScore |-> 0, CvssImpactScore |-> 0, CvssExploitScore |-> 0,
             ExploitRange |-> "", AttackComplexity |-> "", Authentication |-> "",
             ConfidentialityImpact |-> "", IntegrityImpact |-> "",
             AvailabilityImpact |-> "", AffectedSoftware |-> <<>>, References |-> <<>>,
             RelatedVulnerabilities |-> <<>>]
      [] name = "AuthorParse" ->
            [ID |-> <<>>, Name |-> "", Country |-> "unknown", CountryCode |-> "",
             ReportedCount |-> 0, Twitter |-> "", Website |-> "", ZoneH |-> "",
             Description |-> "", Vulnerabilities |-> <<>>, CurrentPage |-> 1,
             TotalPages |-> 1]

\* C5: every extractor, given non-blank text that matches no known document
\* shape ("<invalid>html</content>"), returns no error and a record in which
\* every field is at its zero value or its default (the author record's
\* defaults are country "unknown" and page 1 of 1).
C5_ShapelessIsZero ==
    (Extracted /\ served = Junk) => (ret.err = NoErr /\ ret.val = ZeroRecord(extractor))

C5_Witness ==
    /\ Extracted /\ served = Junk /\ extractor = "ParseCveDetailPage"
    /\ ret.err = NoErr /\ ret.val.CveID = "" /\ ret.val.RelatedVulnerabilities = <<>>

\* no script block assigns a pagination counter
NoAssignments(scripts) ==
    \A i \in 1..Len(scripts) :
        scripts[i].tot = None /\ scripts[i].cur = None /\ scripts[i].per = None

\* C6: ParseListPage on any non-blank document that contains no matching
\* pagination script assignments returns current_page = 1 and
\* total_pages = 1, whether or not a list table is found in the document.
C6_DefaultPagination ==
    (Extracted /\ extractor = "ParseListPage" /\ ~IsBlank(served)
       /\ NoAssignments(served.scripts))
    => (ret.err = NoErr /\ ret.val.CurrentPage = 1 /\ ret.val.TotalPages = 1)

\* a page without a list table comes back as page 0 of 0
C6_Witness ==
    /\ Extracted /\ extractor = "ParseListPage" /\ served = Junk
    /\ ret.err = NoErr /\ ret.val.CurrentPage = 0 /\ ret.val.TotalPages = 0

\* an absolute URL: it starts with a scheme and "://"
IsAbsoluteURL(u) == Len(u) >= 2 /\ u[1] \in {"http", "https"} /\ u[2] \in {"://", "s://"}
StoredAbsolute(u) == u = <<>> \/ IsAbsoluteURL(u)
AllAbsolute(items) ==
    \A i \in 1..Len(items) :
        StoredAbsolute(items[i].URL) /\ StoredAbsolute(items[i].AuthorURL)

\* C7: on return from any extractor (standard list, search-style list,
\* detail, CVE related-vulnerability rows, author), every non-empty url and
\* author_url in the returned records is an absolute URL.
C7_StoredURLsAbsolute ==
    (Extracted /\ ret.err = NoErr) =>
        CASE extractor = "ParseListPage" -> AllAbsolute(ret.val.Items)
          [] extractor = "ParseVulnerabilityDetailPage" -> AllAbsolute(<<ret.val>>)
          [] extractor = "ParseCveDetailPage" -> AllAbsolute(ret.val.RelatedVulnerabilities)
          [] extractor = "AuthorParse" -> AllAbsolute(ret.val.Vulnerabilities)
          [] OTHER -> TRUE

\* the detail extractor stores the author link's relative href as it is
C7_Witness ==
    /\ Extracted /\ extractor = "ParseVulnerabilityDetailPage" /\ ret.err = NoErr
    /\ ret.val.AuthorURL = <<"/", "author", "/", "alice">>

\* a request of the current call has gone out for path
Requested == Len(log) > 0
DoubledPrefix == <<"WLB-", "WLB-">>

\* C8 as stated: an id that carries the record-id prefix twice
\* ("WLB-WLB-X") is reduced to a single prefix before the fetch path is
\* composed, so the path requested from the fetcher never contains
\* "WLB-WLB-".
C8_RequestedPathNeverDoubled == Requested => ~Contains(path, DoubledPrefix)

\* C8 as the code has it: for the id "WLB-WLB-X" the path requested is
\* "/issue/WLB-WLB-X", prefix twice; the doubled prefix is reduced to one
\* only after the fetch, in the URL (and so the id) of the returned record.
C8_DoubledPrefixReducedInRecord ==
    \A X \in {<<"2024">>} :
        (Requested /\ (\/ op.name = "CrawlExploit" /\ op.arg = DoubledPrefix \o X
                       \/ op.name = "CrawlVulnerabilityDetail"
                            /\ op.arg = <<"/", "issue", "/">> \o DoubledPrefix \o X))
        => /\ path = <<"/", "issue", "/", "WLB-", "WLB-">> \o X
           /\ (pc = "done" /\ ret.err = NoErr) =>
                 /\ ret.val.URL = <<"http", "s://", "cxsecurity.com", "/", "issue", "/", "WLB-">>
                                   \o X
                 /\ op.name = "CrawlExploit" => ret.val.ID = <<"WLB-">> \o X

C8_Witness ==
    /\ pc = "done" /\ op.name = "CrawlExploit" /\ op.arg = <<"WLB-", "WLB-", "2024">>
    /\ path = <<"/", "issue", "/", "WLB-", "WLB-", "2024">> /\ log = <<TRUE>>
    /\ ret.err = NoErr /\ ret.val.ID = <<"WLB-", "2024">>
    /\ ret.val.URL = <<"http", "s://", "cxsecurity.com", "/", "issue", "/", "WLB-", "2024">>

\* the ids without the prefix that CrawlExploit is called with
Unprefixed == {<<"2024">>, <<"7", "/", "x">>}

\* C9: for a non-empty id X that does not start with the prefix,
\* CrawlExploit(X) and CrawlExploit("WLB-" + X) request the same detail path
\* "/issue/WLB-X" and use the detail extractor; CrawlExploit("") requests
\* the list path "/exploit/1" and uses the list extractor.
C9_ExploitPaths ==
    (op.name = "CrawlExploit" /\ Requested) =>
        /\ \A X \in Unprefixed :
              op.arg \in {X, <<"WLB-">> \o X} =>
                 /\ path = <<"/", "issue", "/", "WLB-">> \o X
                 /\ (pc = "done" /\ Successes # {}) => extractor = "detail"
        /\ op.arg = <<>> =>
              /\ path = <<"/", "exploit", "/", "1">>
              /\ (pc = "done" /\ Successes # {}) => extractor = "list"
        /\ (pc = "done" /\ Successes = {}) => extractor = "none"

C9_Witness ==
    /\ pc = "done" /\ op.name = "CrawlExploit" /\ op.arg = <<"WLB-", "7", "/", "x">>
    /\ path = <<"/", "issue", "/", "WLB-", "7", "/", "x">> /\ extractor = "detail"
    /\ ret.err = NoErr

\* C10: every SearchResult returned by SearchVulnerabilitiesAdvanced has
\* per_page in {10, 30} and sort_order in {ASC, DESC}: a per_page outside
\* {10, 30} becomes 10, a sort outside {ASC, DESC} becomes DESC, and the
\* same coerced values are the ones embedded in the fetched search path.
C10_SearchCoercion ==
    (op.name = "SearchVulnerabilitiesAdvanced" /\ Requested) =>
        LET perPage == IF op.perPage \in {10, 30} THEN op.perPage ELSE 10
            sortOrder == IF op.sortOrder \in {"ASC", "DESC"} THEN op.sortOrder ELSE "DESC"
        IN /\ path = <<"/", "search", "/", "wlb", "/", sortOrder, "/", "AND", "/">>
                      \o op.today
                      \o <<".", "1999.1.1", "/", ToString(op.page), "/",
                            ToString(perPage), "/">>
                      \o QueryEscape(op.arg) \o <<"/">>
           /\ (pc = "done" /\ ret.err = NoErr) =>
                 /\ ret.val.PerPage = perPage /\ ret.val.PerPage \in {10, 30}
                 /\ ret.val.SortOrder = sortOrder /\ ret.val.SortOrder \in {"ASC", "DESC"}

C10_Witness ==
    /\ pc = "done" /\ op.name = "SearchVulnerabilitiesAdvanced"
    /\ op.perPage = 20 /\ op.sortOrder = "BAD" /\ ret.err = NoErr
    /\ ret.val.PerPage = 10 /\ ret.val.SortOrder = "DESC"
    /\ path[6] = "DESC" /\ path[16] = "10"
\* C11: GetPage on a client whose base origin is empty returns an error
\* immediately: it issues no request, performs no sleep and makes no retry.
C11_NoBaseURLNoRequest ==
    (baseURL = <<>> /\ op.name # "none") =>
        /\ pc = "done"
        /\ log = <<>> /\ last.kind = "none"
        /\ sleeps = 0
        /\ attempt = 0
        /\ ret.err # NoErr
        /\ op.name = "GetPage" => ret = [err |-> <<"baseURL not set">>, val |-> EmptyString]

C11_Witness ==
    /\ baseURL = <<>> /\ pc = "done" /\ op.name = "GetPage" /\ maxRetries = 3
    /\ log = <<>> /\ sleeps = 0 /\ ret.err = <<"baseURL not set">>

\* the error doRequest returns for the response in last
ErrOfLast ==
    CASE last.kind = "neterr" -> <<"transport error">>
      [] last.kind = "readerr" -> <<"read error">>
      [] last.kind = "http" /\ last.status \in 500..599 ->
            <<"server error", ToString(last.status)>>
      [] OTHER -> <<>>

\* the message a facade operation puts in front of a fetch error
FetchFailedMessage ==
    CASE op.name = "CrawlPage" -> "get page content failed"
      [] op.name = "CrawlVulnerabilityDetail" ->
            "get vulnerability detail page content failed"
      [] op.name = "CrawlCveDetail" -> "get CVE detail page content failed"
      [] op.name = "CrawlExploit" ->
            IF op.arg = <<>> THEN "get page content failed"
            ELSE "get vulnerability detail page content failed"
      [] op.name = "CrawlAuthor" -> "get author page content failed"
      [] op.name = "SearchVulnerabilitiesAdvanced" ->
            "get search result page content failed"
      [] OTHER -> ""

RetriesExhausted == pc = "done" /\ Requested /\ Successes = {}

\* C12: after retries are exhausted, the error the caller of a facade
\* operation receives wraps the error of the last failed attempt, not the
\* error of any earlier attempt.
C12_LastErrorWrapped ==
    RetriesExhausted =>
        IF op.name = "GetPage" THEN ret.err = ErrOfLast
        ELSE ret.err = <<FetchFailedMessage>> \o ErrOfLast /\ ret.val = Nil

C12_Witness ==
    /\ RetriesExhausted /\ op.name = "CrawlPage" /\ Len(log) = 4
    /\ firstErr = <<"transport error">> /\ last = [kind |-> "http", status |-> 503]
    /\ ret.err = <<"get page content failed", "server error", "503">>
\* the ceiling of a / b, for a > 0 and b > 0
Ceil(a, b) == (a \div b) + (IF a % b = 0 THEN 0 ELSE 1)

\* the operand values the pagination code holds after the script blocks
Operands == MineScripts(served.scripts, [totalItems |-> 0, currentPage |-> 1, perPage |-> 10])

\* an extractor has returned a record with pagination counters
Paginated ==
    /\ Extracted /\ ret.err = NoErr
    /\ \/ extractor = "AuthorParse"
       \/ extractor = "ParseListPage" /\ (served.list.striped \/ served.list.flat)

\* C13: total_pages equals ceil(total_items / per_page) exactly when both
\* operand values (mined or defaulted) are positive, and equals 1 in every
\* other case; computing it never produces an error.
C13_TotalPagesIsCeiling ==
    Paginated =>
        ret.val.TotalPages = IF Operands.totalItems > 0 /\ Operands.perPage > 0
                             THEN Ceil(Operands.totalItems, Operands.perPage)
                             ELSE 1

\* a total item count at the top of the int range gives a negative page count
C13_Witness ==
    /\ Paginated /\ extractor = "ParseListPage"
    /\ Operands.totalItems = MaxInt /\ Operands.perPage = 10
    /\ ret.val.TotalPages = -214748364
\* the blocks of the served document that assign counter c, and those among
\* them that contain the text "$scope.totalItems"
Assigning(c) == {i \in 1..Len(served.scripts) : served.scripts[i][c] # None}
MentioningAssigning(c) == {i \in Assigning(c) : served.scripts[i].mention}
LastOf(S) == CHOOSE i \in S : \A j \in S : j <= i

\* the value of counter c: that of the last block of S, dflt when S is empty
ValueIn(S, c, dflt) == IF S = {} THEN dflt ELSE served.scripts[LastOf(S)][c]

\* the page counters a record has when the operands are tot, cur and per
\* (tot and per small enough for the sum not to leave the int range)
CountersOf(tot, cur, per) ==
    /\ ret.val.CurrentPage = (IF cur < 1 THEN 1 ELSE cur)
    /\ tot <= MaxInt - per =>
          ret.val.TotalPages = (IF tot > 0 /\ per > 0 THEN Ceil(tot, per) ELSE 1)

Records ==
    CASE extractor = "ParseListPage" -> ret.val.Items
      [] extractor = "ParseVulnerabilityDetailPage" -> <<ret.val>>
      [] extractor = "ParseCveDetailPage" -> ret.val.RelatedVulnerabilities
      [] extractor = "AuthorParse" -> ret.val.Vulnerabilities
      [] OTHER -> <<>>

NoDuplicates(seq) == \A i, j \in 1..Len(seq) : seq[i] = seq[j] => i = j

\* C15: the tag list of every record returned by any extractor contains no
\* two equal values.
C15_TagsDistinct ==
    (Extracted /\ ret.err = NoErr) =>
        \A i \in 1..Len(Records) : NoDuplicates(Records[i].Tags)

\* a list row with the label "XSS" twice keeps both
C15_Witness ==
    /\ Extracted /\ extractor = "ParseListPage" /\ ret.err = NoErr
    /\ Len(ret.val.Items) = 1 /\ ret.val.Items[1].Title = "t2" /\ ret.val.Items[1].Tags = <<"XSS", "XSS">>
\* the table rows of the served author page that yield a record with id x
\* (the first row is the table header)
RowsWithId(x) ==
    {i \in 2..Len(served.author.rows) :
        /\ served.author.rows[i].ncells >= 3
        /\ served.author.rows[i].title # ""
        /\ IdFromURL(AuthorFixURL(served.author.rows[i].href)) = x}

\* C16: the vulnerabilities list of a returned AuthorProfile contains at
\* most one record per derived id; when several table rows yield the same
\* id, the record kept is the one from the last such row.
C16_OneRecordPerId ==
    (Extracted /\ extractor = "AuthorParse" /\ ret.err = NoErr) =>
        LET vs == ret.val.Vulnerabilities
        IN /\ \A i, j \in 1..Len(vs) : (vs[i].ID # <<>> /\ vs[i].ID = vs[j].ID) => i = j
           /\ \A i \in 1..Len(vs) :
                 vs[i].ID # <<>> =>
                    vs[i].Title = served.author.rows[LastOf(RowsWithId(vs[i].ID))].title

\* two rows for WLB-2024 come back as two records
C16_Witness ==
    /\ Extracted /\ extractor = "AuthorParse" /\ ret.err = NoErr
    /\ Len(ret.val.Vulnerabilities) = 2
    /\ ret.val.Vulnerabilities[1].ID = <<"WLB-", "2024">>
    /\ ret.val.Vulnerabilities[2].ID = <<"WLB-", "2024">>
    /\ ret.val.Vulnerabilities[1].Title = "a1" /\ ret.val.Vulnerabilities[2].Title = "a2"
\* the elements of the served standard table that become items, and the
\* element behind the k-th item
KeptElems ==
    {i \in 1..Len(served.list.elems) :
        LET e == served.list.elems[i]
        IN e.kind = "tr" /\ e.ncells >= 2 /\ e.layout = "std" /\ e.title # ""}
ElemOfItem(k) == CHOOSE i \in KeptElems : Cardinality({j \in KeptElems : j < i}) = k - 1
HeaderDate(i) ==
    ParseFirst(<<"2006-01-02", "02.01.2006", "Jan 2, 2006">>, served.list.elems[i].date)
HeadersBefore(i) == {j \in 1..(i - 1) : served.list.elems[j].kind = "thead"}
ParsedHeadersBefore(i) == {j \in HeadersBefore(i) : HeaderDate(j) # ZeroDate}
StandardList ==
    /\ Extracted /\ extractor = "ParseListPage" /\ ret.err = NoErr
    /\ ~served.list.pagIt /\ (served.list.striped \/ served.list.flat)

\* C17 as stated: in a standard date-grouped list every item row carries
\* the date of the nearest preceding group header, each header replacing the
\* running date.
C17_DateOfNearestHeader ==
    StandardList =>
        /\ Len(ret.val.Items) = Cardinality(KeptElems)
        /\ \A k \in 1..Len(ret.val.Items) :
              HeadersBefore(ElemOfItem(k)) # {} =>
                 ret.val.Items[k].Date = HeaderDate(LastOf(HeadersBefore(ElemOfItem(k))))

\* C17 amended: every item row carries the date of the nearest preceding
\* group header whose text parses as a date, and the zero date when no
\* header before it parses; a header whose text does not parse leaves the
\* running date as it was.
C17_DateOfNearestParsedHeader ==
    StandardList =>
        /\ Len(ret.val.Items) = Cardinality(KeptElems)
        /\ \A k \in 1..Len(ret.val.Items) :
              ret.val.Items[k].Date =
                 IF ParsedHeadersBefore(ElemOfItem(k)) = {} THEN ZeroDate
                 ELSE HeaderDate(LastOf(ParsedHeadersBefore(ElemOfItem(k))))

\* a dated header, a header without a date, then an item: the item has the
\* date of the first header
C17_Witness ==
    /\ StandardList
    /\ Len(served.list.elems) = 3
    /\ served.list.elems[1] = Thead(Date("Y-M-D", 1))
    /\ served.list.elems[2] = Thead(Junkdate)
    /\ served.list.elems[3].kind = "tr"
    /\ Len(ret.val.Items) = 1
    /\ ret.val.Items[1].Date = HeaderDate(1)
    /\ ret.val.Items[1].Date # ZeroDate
\* the vulnerability records of the value the facade returned
FacadeRecords ==
    CASE op.name = "SearchVulnerabilitiesAdvanced" -> ret.val.Vulnerabilities
      [] extractor = "list" -> ret.val.Items
      [] extractor = "detail" -> <<ret.val>>
      [] OTHER -> <<>>
FacadeReturned ==
    /\ pc = "done" /\ ret.err = NoErr
    /\ op.name \in {"CrawlPage", "CrawlVulnerabilityDetail", "CrawlExploit",
                    "SearchVulnerabilitiesAdvanced"}

\* id is the part of url that starts at the marker "WLB-" (either all of it
\* or up to the next "/"), and empty when url has no marker
IdAtMarker(id, url) ==
    IF Contains(url, WLB)
    THEN id = From(url, Index(url, WLB)) \/ id = IdFromURL(url)
    ELSE id = <<>>

\* C18: in every vulnerability record the facade returns (detail, list and
\* search results) id is the record id found at the marker "WLB-" in the
\* record's url, and id is empty when the url does not contain the marker.
C18_IdDerivedFromURL ==
    FacadeReturned =>
        \A i \in 1..Len(FacadeRecords) :
            IdAtMarker(FacadeRecords[i].ID, FacadeRecords[i].URL)

\* CrawlPage returns an item whose url holds the marker and whose id is empty
C18_Witness ==
    /\ FacadeReturned /\ op.name = "CrawlPage"
    /\ Len(ret.val.Items) = 1
    /\ ret.val.Items[1].URL = Origin \o RootRel
    /\ ret.val.Items[1].ID = <<>>
\* the three cases of URL absolutization; an empty URL stays empty
Absolutize(url) ==
    IF url = <<>> \/ IsAbsoluteURL(url) THEN url
    ELSE IF HasPrefix(url, <<"/">>) THEN Origin \o url
    ELSE Origin \o <<"/">> \o url

\* every record has the title of a row and that row's link, absolutized
FromRows(recs, rows) ==
    \A i \in 1..Len(recs) :
        \E k \in 1..Len(rows) :
            rows[k].title = recs[i].Title /\ recs[i].URL = Absolutize(rows[k].href)

\* C19: every extractor completes a URL by the same three cases: a URL that
\* starts with a scheme is kept unchanged, a URL that starts with "/"
\* becomes origin + url, any other URL becomes origin + "/" + url.
C19_ThreeCaseAbsolutization ==
    (Extracted /\ ret.err = NoErr) =>
        CASE extractor = "ParseListPage" -> FromRows(ret.val.Items, served.list.elems)
          [] extractor = "ParseVulnerabilityDetailPage" ->
                ret.val.AuthorURL \in {<<>>, Absolutize(served.detail.authorHref)}
          [] extractor = "ParseCveDetailPage" ->
                FromRows(ret.val.RelatedVulnerabilities, served.cve.related)
          [] extractor = "AuthorParse" ->
                FromRows(ret.val.Vulnerabilities, served.author.rows)
          [] OTHER -> TRUE

\* the author extractor joins the origin and "issue/WLB-7/x" without a "/"
C19_Witness ==
    /\ Extracted /\ extractor = "AuthorParse" /\ ret.err = NoErr
    /\ Len(served.author.rows) = 2 /\ served.author.rows[2].href = PlainRel
    /\ Len(ret.val.Vulnerabilities) = 1
    /\ ret.val.Vulnerabilities[1].URL = Origin \o PlainRel
\* what GetPage returns to a caller that ran alone and whose last request
\* was answered as the last request of k was
FetchAlone(r) ==
    IF BaseURLUnset(baseURL) THEN [content |-> EmptyString, err |-> <<"baseURL not set">>]
    ELSE IF r.err = NoErr THEN r
    ELSE [content |-> EmptyString, err |-> r.err]
ResultAlone(k) ==
    Return(k.op, PathOf(k.op), baseURL,
           FetchAlone(IF k.lastResp = NoResp THEN [content |-> EmptyString, err |-> NoErr]
                      ELSE doRequest(k.lastResp)), TRUE)

C21_RetryZeroDisablesRetries ==
    retryOpt = 0 =>
        /\ Len(log) <= 1
        /\ (pc = "done" /\ ~BaseURLUnset(baseURL)) => Len(log) = 1

\* with WithRetry(0, 0) a call whose requests all fail makes four of them
C21_Witness ==
    /\ retryOpt = 0 /\ pc = "done" /\ ret.err # NoErr
    /\ Len(log) = DefaultMaxRetries + 1
    /\ Cardinality(Failures) = Len(log)
\* C22 as stated: the number of retryDelay sleeps of one GetPage call equals
\* the number of its failed attempts, both when the call succeeds in the end
\* and when all attempts fail.
C22_SleepsEqualFailures ==
    (pc = "done" /\ Requested) => sleeps = Cardinality(Failures)

\* C22 amended: one GetPage call sleeps once before every attempt but the
\* first, so the number of sleeps is the number of attempts minus one: the
\* number of failed attempts when the call succeeds in the end, and one less
\* than the number of failed attempts when all attempts fail.
C22_SleepsBetweenAttempts ==
    Requested =>
        /\ sleeps = Len(log) - 1
        /\ pc = "done" =>
              sleeps = IF log[Len(log)] THEN Cardinality(Failures)
                       ELSE Cardinality(Failures) - 1

\* a call that failed three times slept twice
C22_Witness ==
    /\ pc = "done" /\ ret.err # NoErr
    /\ Len(log) = 3 /\ Cardinality(Failures) = 3 /\ sleeps = 2
\* the page segment of a requested search path:
\* /search/wlb/<sort>/AND/<end>.<start>/<page>/<perPage>/<keyword>/
SearchRequested == op.name = "SearchVulnerabilitiesAdvanced" /\ Requested
PageInPath == path[Len(path) - Len(QueryEscape(op.arg)) - 4]

\* C23: SearchVulnerabilitiesAdvanced called with a page number below 1
\* treats it as page 1: the search path it requests carries page 1.
C23_PageBelowOneIsOne ==
    (SearchRequested /\ op.page < 1) => PageInPath = "1"

\* the search for page 0 requests .../0/10/<keyword>/
C23_Witness ==
    /\ SearchRequested /\ op.page = 0 /\ pc = "done"
    /\ PageInPath = "0"
    /\ path[Len(path) - Len(QueryEscape(op.arg)) - 2] = "10"
\* C24: search results are cached: a repeated SearchVulnerabilitiesAdvanced
\* call with the same search parameters returns the same result as the
\* first call.
C24_RepeatedSearchSameResult ==
    \A c \in Callers :
        (calls[c].pc = "done" /\ calls[c].prior # Nil) => calls[c].ret = calls[c].prior

\* the search for "xss" was answered from one page, then the same search
\* was made again, requested the page again and was answered from another
C24_Witness ==
    \E c \in Callers :
        /\ calls[c].pc = "done" /\ calls[c].prior # Nil
        /\ calls[c].op = Call("SearchVulnerabilitiesAdvanced", <<"xss">>)
        /\ calls[c].lastResp.body = SearchPage
        /\ calls[c].ret.err = NoErr /\ calls[c].prior.err = NoErr
        /\ calls[c].ret.val.Vulnerabilities # calls[c].prior.val.Vulnerabilities
\* the position of the first occurrence of x in seq
FirstIndex(seq, x) == CHOOSE i \in 1..Len(seq) : seq[i] = x /\ \A j \in 1..(i - 1) : seq[j] # x

\* out is seq without its repeated values, in the order of first occurrence
FirstOccurrences(out, seq) ==
    /\ NoDuplicates(out)
    /\ {out[i] : i \in 1..Len(out)} = {seq[i] : i \in 1..Len(seq)}
    /\ \A i, j \in 1..Len(out) : i < j => FirstIndex(seq, out[i]) < FirstIndex(seq, out[j])

DetailExtracted ==
    Extracted /\ extractor = "ParseVulnerabilityDetailPage" /\ ret.err = NoErr

\* C25: tag de-duplication keeps exactly the first occurrence of each value
\* and preserves the relative order of the first occurrences: the labels
\* CVE, Remote, CVE give the tags CVE, Remote.
C25_DedupKeepsFirst ==
    DetailExtracted =>
        FirstOccurrences(ret.val.Tags, OtherTags(served.detail.wells, <<>>))

\* the labels CVE, Remote, CVE of a detail page give the tags CVE, Remote
C25_Witness ==
    /\ DetailExtracted
    /\ OtherTags(served.detail.wells, <<>>) = <<"CVE", "Remote", "CVE">>
    /\ ret.val.Tags = <<"CVE", "Remote">>
\* a standard list with one date header and one item row whose labels are
\* "CVE", "Remote" and the author link
MockList ==
    /\ StandardList
    /\ Len(served.list.elems) = 2
    /\ served.list.elems[1] = Thead(Date("Y-M-D", 1))
    /\ served.list.elems[2].kind = "tr" /\ served.list.elems[2].title = "t1"
    /\ served.list.elems[2].labels[1].text = "CVE"
    /\ served.list.elems[2].labels[2].text = "Remote"

\* C26: for a list document with one date header and one item row whose tag
\* labels are "CVE" and "Remote", ParseListPage returns exactly one item and
\* its Tags are CVE, Remote: a Remote or Local label is kept in the tag list.
C26_RemoteKeptInTags ==
    MockList =>
        /\ Len(ret.val.Items) = 1
        /\ ret.val.Items[1].Tags = <<"CVE", "Remote">>

\* the item has the one tag CVE and the Remote flag
C26_Witness ==
    /\ MockList
    /\ Len(ret.val.Items) = 1
    /\ ret.val.Items[1].Tags = <<"CVE">>
    /\ ret.val.Items[1].IsRemote /\ ~ret.val.Items[1].IsLocal
    /\ ret.val.Items[1].Date = ParseFirst(<<"2006-01-02">>, Date("Y-M-D", 1))
\* the candidates of the served detail page that parse as a date
DateCandidates ==
    {i \in 1..Len(served.detail.dateCands) :
        ParseFirst(<<"2006.01.02">>, served.detail.dateCands[i]) # ZeroDate}
FirstOf(S) == CHOOSE i \in S : \A j \in S : i <= j

\* C27: when several candidate fields of a detail page parse as a date, the
\* record's date is that of the first such candidate in document order.
C27_FirstDateCandidate ==
    (DetailExtracted /\ DateCandidates # {}) =>
        ret.val.Date = ParseFirst(<<"2006.01.02">>,
                                  served.detail.dateCands[FirstOf(DateCandidates)])

\* of two candidates that both parse, the record has the date of the second
C27_Witness ==
    /\ DetailExtracted
    /\ DateCandidates = {1, 2}
    /\ ret.val.Date = ParseFirst(<<"2006.01.02">>, served.detail.dateCands[2])
    /\ ret.val.Date # ParseFirst(<<"2006.01.02">>, served.detail.dateCands[1])
SearchReturned ==
    pc = "done" /\ op.name = "SearchVulnerabilitiesAdvanced" /\ ret.err = NoErr

\* C28: the current_page of the SearchResult returned for a request of page
\* p (p >= 1) equals p.
C28_CurrentPageIsRequested ==
    (SearchReturned /\ op.page >= 1) => ret.val.CurrentPage = op.page

\* page 2 was requested and answered with a result table that carries no
\* pagination script: the result says page 1
C28_Witness ==
    /\ SearchReturned /\ op.page = 2
    /\ PageInPath = "2"
    /\ served = UnmarkedPage
    /\ Len(ret.val.Vulnerabilities) = 1
    /\ ret.val.CurrentPage = 1
\* C29: the search command requests consecutive pages start, start + 1, ...
\* with no page skipped or repeated; it requests page p + 1 only if the
\* search for page p succeeded, paging is enabled, that result reported
\* total_pages > p and the user confirmed; otherwise the loop ends after
\* page p.
C29_ConsecutivePages ==
    LET n == Len(cli.reqs)
        mayGoOn == /\ cli.result.ok /\ ~cli.searchNoPaging
                   /\ cli.result.TotalPages > cli.reqs[n].page
                   /\ Confirms(cli.answer)
    IN /\ \A i \in 1..n : cli.reqs[i].page = cli.searchPage + i - 1
       /\ (cli.pc = "search" /\ n > 0) => (mayGoOn /\ cli.currentPage = cli.reqs[n].page + 1)
       /\ cli.pc = "end" => ~mayGoOn
       /\ cli.pc = "ask" => cli.currentPage = cli.reqs[n].page

\* two pages were requested and the second result reports no further page
C29_Witness ==
    /\ cli.pc = "end" /\ Len(cli.reqs) = 2
    /\ cli.reqs[1].page = 1 /\ cli.reqs[2].page = 2 /\ cli.reqs[2].suffixed
    /\ cli.result.ok /\ cli.result.TotalPages = 2
    /\ cli.answer = ""
\* the last request went to a protected route; it presents the token
ProtectedRequest == api.up /\ api.req # Nil /\ api.req.route \in Protected
Presents ==
    \/ api.req.header = api.apiToken
    \/ api.req.header = "" /\ api.req.query = api.apiToken

\* C30 as stated: a protected handler runs only for a request that presents
\* the configured token (in the header X-API-Token, or in the parameter
\* token when the header is empty); every other request that is not OPTIONS
\* gets 401 and the handler is not invoked; an OPTIONS request is answered
\* without invoking the handler.
C30_TokenOr401 ==
    ProtectedRequest =>
        /\ api.ran # "" => Presents
        /\ (api.req.method # "OPTIONS" /\ ~Presents) => (api.status = 401 /\ api.ran = "")
        /\ api.req.method = "OPTIONS" => api.ran = ""

\* C30 amended: a protected handler runs exactly for the GET requests that
\* present the configured token; a GET request that does not present it
\* gets 401 and an OPTIONS request gets 200, both without the handler; a
\* request with any other method is refused by the router (405 or 404)
\* before the token is looked at.
C30_TokenOr401ForGet ==
    ProtectedRequest =>
        /\ api.ran # "" <=> (api.req.method = "GET" /\ Presents)
        /\ api.ran # "" => (api.ran = api.req.route /\ api.status = 200)
        /\ (api.req.method = "GET" /\ ~Presents) => api.status = 401
        /\ api.req.method = "OPTIONS" => api.status = 200
        /\ api.req.method \notin {"GET", "OPTIONS"} => api.status \in {404, 405}

\* a GET request with the token in the parameter and no header is served
C30_Witness ==
    /\ ProtectedRequest
    /\ api.req.method = "GET" /\ api.req.header = "" /\ api.req.query = "random-hex"
    /\ api.apiToken = "random-hex"
    /\ api.ran = "/api/search" /\ api.status = 200

====
